---- MODULE Spec2Model ----
(***************************************************************************)
(* Model of the playing engine of neurina: the Engine (main thread API),   *)
(* its worker thread, the Thinker (iterative deepening, condition-variable *)
(* protocol), the search interruption checker, the root searcher and the   *)
(* time-control arithmetic.                                                *)
(***************************************************************************)
EXTENDS Integers, Sequences, FiniteSets, TLC

(***************************************************************************)
(* Bounds of the model.                                                    *)
(***************************************************************************)
\* number of Engine API calls the main thread makes
MaxOps == 3
\* depth at which the iterative-deepening counter saturates
DepthCap == 6
\* number of most recent lines kept of the writer
MaxOut == 2
\* number of wait() calls of the second waiter thread
MaxAuxWaits == 1
\* value at which the node counter of a think saturates
NodeCap == 40

(***************************************************************************)
(* Program constants.                                                      *)
(***************************************************************************)
MIDDLE_DEPTH == 2
MAX_EVAL_VALUE == 32767
MIN_EVAL_VALUE == -32767
MAX_EVAL_MATE_VALUE == MAX_EVAL_VALUE - 384
MIN_EVAL_MATE_VALUE == MIN_EVAL_VALUE + 384
MAX_EVAL_MIDDLE_MATE_VALUE == MAX_EVAL_VALUE - 256
MIN_EVAL_MIDDLE_MATE_VALUE == MIN_EVAL_VALUE + 256
MAX_EVAL_ROOT_MATE_VALUE == MAX_EVAL_VALUE - 128
MIN_EVAL_ROOT_MATE_VALUE == MIN_EVAL_VALUE + 128

\* Option::None of an Option<usize> / Option<u64> / Option<Move>
NoLimit == -1
NoMove == "none"

(***************************************************************************)
(* std::time::Duration, nanosecond precision: a pair of whole milliseconds *)
(* and the nanoseconds below one millisecond.                              *)
(***************************************************************************)
NanosPerMilli == 1000000

Millis(n) == [ms |-> n, ns |-> 0]

DurationZero == Millis(0)

\* a division that keeps whole milliseconds only
DurDiv_whole_millis(d, n) == [ms |-> d.ms \div n, ns |-> 0]

\* Duration / u32: floor of the nanosecond count divided by n
DurDiv(d, n) ==
    LET carry == d.ms % n
    IN  [ms |-> d.ms \div n, ns |-> (carry * NanosPerMilli + d.ns) \div n]

DurAdd(a, b) ==
    LET s == a.ns + b.ns
    IN  [ms |-> a.ms + b.ms + (s \div NanosPerMilli), ns |-> s % NanosPerMilli]

\* a - b for a >= b
DurSub(a, b) ==
    IF a.ns >= b.ns
    THEN [ms |-> a.ms - b.ms, ns |-> a.ns - b.ns]
    ELSE [ms |-> a.ms - b.ms - 1, ns |-> a.ns + NanosPerMilli - b.ns]

DurGe(a, b) == a.ms > b.ms \/ (a.ms = b.ms /\ a.ns >= b.ns)

DurGt(a, b) == a.ms > b.ms \/ (a.ms = b.ms /\ a.ns > b.ns)

(***************************************************************************)
(* TimeControl and Engine::calculate_timeout.  tc is                       *)
(* [kind |-> "Level", mps, inc] or [kind |-> "Fixed", time].  The cast     *)
(* `move_count_to_go as u32` is the identity on the values of the model    *)
(* (all below 2^32).                                                       *)
(***************************************************************************)
Level(mps, inc) == [kind |-> "Level", mps |-> mps, inc |-> inc, time |-> DurationZero]

Fixed(time) == [kind |-> "Fixed", mps |-> 0, inc |-> DurationZero, time |-> time]

SafetyMargin == Millis(500)

\* calculate_timeout clamping only a timeout above the remaining time
calculate_timeout_clamps_above(tc, remaining_time, move_count_to_go, chain_len) ==
    IF tc.kind = "Level"
    THEN LET mtg == IF move_count_to_go > 0
                    THEN move_count_to_go
                    ELSE IF tc.mps > 0
                         THEN tc.mps - ((chain_len \div 2) % tc.mps)
                         ELSE 30
             timeout == DurAdd(DurDiv(remaining_time, mtg), DurDiv(tc.inc, 2))
         IN  IF DurGt(timeout, remaining_time)
             THEN IF DurGt(remaining_time, SafetyMargin)
                  THEN DurSub(remaining_time, SafetyMargin)
                  ELSE DurationZero
             ELSE timeout
    ELSE IF DurGt(tc.time, SafetyMargin)
         THEN DurSub(tc.time, SafetyMargin)
         ELSE DurationZero

calculate_timeout(tc, remaining_time, move_count_to_go, chain_len) ==
    IF tc.kind = "Level"
    THEN LET mtg == IF move_count_to_go > 0
                    THEN move_count_to_go
                    ELSE IF tc.mps > 0
                         THEN tc.mps - ((chain_len \div 2) % tc.mps)
                         ELSE 30
             timeout == DurAdd(DurDiv(remaining_time, mtg), DurDiv(tc.inc, 2))
         IN  IF DurGe(timeout, remaining_time)
             THEN IF DurGt(remaining_time, SafetyMargin)
                  THEN DurSub(remaining_time, SafetyMargin)
                  ELSE DurationZero
             ELSE timeout
    ELSE IF DurGt(tc.time, SafetyMargin)
         THEN DurSub(tc.time, SafetyMargin)
         ELSE DurationZero

(***************************************************************************)
(* The chess library, abstracted.  A move chain is the sequence of moves   *)
(* played.  A move is named after what it leads to:                        *)
(*   "i"        semilegal but illegal (push fails),                        *)
(*   "w"        legal, checkmates (the chain's outcome becomes a win),     *)
(*   "d"        legal, ends the game in a draw (stalemate, repetition...), *)
(*   "n1","n2"  legal, lead to a position where the game goes on.          *)
(***************************************************************************)
Moves == {"i", "w", "d", "n1", "n2"}

LastMove(chain) == IF chain = <<>> THEN "n1" ELSE chain[Len(chain)]

\* semilegal::gen_all(move_chain.last()), in generation order
SemiLegal(chain) ==
    IF LastMove(chain) \in {"w", "d"} THEN <<>>
    ELSE IF LastMove(chain) = "n2" THEN <<"i", "n1", "w", "d">>
    ELSE <<"i", "d", "n1", "n2">>

SeqRange(s) == {s[i] : i \in 1..Len(s)}

LegalMoves(chain) == SeqRange(SemiLegal(chain)) \ {"i"}

\* MoveChain::set_auto_outcome(OutcomeFilter::Relaxed)
AutoOutcome(chain) ==
    IF chain = <<>> THEN "None"
    ELSE IF LastMove(chain) = "w" THEN "Win"
    ELSE IF LastMove(chain) = "d" THEN "Draw"
    ELSE "None"

(***************************************************************************)
(* OneSearcher.                                                            *)
(***************************************************************************)
min_depth == 1 + MIDDLE_DEPTH + 1

move_count_to_checkmate(value, depth) ==
    IF value >= MAX_EVAL_ROOT_MATE_VALUE
    THEN MAX_EVAL_ROOT_MATE_VALUE - value + 0
    ELSE IF value >= MAX_EVAL_MIDDLE_MATE_VALUE
    THEN (MAX_EVAL_MIDDLE_MATE_VALUE + MIDDLE_DEPTH) - value + 1
    ELSE IF value >= MAX_EVAL_MATE_VALUE
    THEN (MAX_EVAL_MATE_VALUE + (depth - MIDDLE_DEPTH - 1)) - value + (MIDDLE_DEPTH + 1)
    ELSE NoLimit

\* the results MiddleSearcher::search(child, MIDDLE_DEPTH, depth) can give on
\* a child whose first pass reaches the neural search: an evaluation, or a
\* mate found at the end of the neural tail
MiddleValues(depth) == {-40, 40, MIN_EVAL_MATE_VALUE - (depth - MIDDLE_DEPTH - 1)}

MiddleNodeCount == 10

MiddleResults(depth) ==
    [value : MiddleValues(depth), middle_nodes : {MiddleNodeCount},
     nodes : {MiddleNodeCount}, pv : {<<"n1">>}]

NormalMoves == {"n1", "n2"}

\* search_moves: Option<Vec<Move>> as [some, mvs]
NoSearchMoves == [some |-> FALSE, mvs |-> {}]

SomeSearchMoves(mvs) == [some |-> TRUE, mvs |-> mvs]

IsSearched(mv, search_moves) == ~search_moves.some \/ mv \in search_moves.mvs

\* the loop over the root moves of OneSearcher::search, from the i-th move on;
\* r gives the result of the middle search of each normal child
RECURSIVE SearchRootMoves(_, _, _, _, _)
SearchRootMoves(moves, i, search_moves, r, acc) ==
    IF i > Len(moves) THEN acc
    ELSE LET mv == moves[i]
         IN  IF ~IsSearched(mv, search_moves) \/ mv = "i"
             THEN SearchRootMoves(moves, i + 1, search_moves, r, acc)
             ELSE IF mv \in {"w", "d"}
             THEN LET value == IF mv = "w" THEN MAX_EVAL_MIDDLE_MATE_VALUE ELSE 0
                      upd == value >= acc.value
                  IN  SearchRootMoves(moves, i + 1, search_moves, r,
                          [value |-> IF upd THEN value ELSE acc.value,
                           pv |-> IF upd THEN <<mv>> ELSE acc.pv,
                           middle_node_count |-> acc.middle_node_count,
                           node_count |-> acc.node_count + 1])
             ELSE LET value == -(r[mv].value)
                      upd == value >= acc.value
                  IN  SearchRootMoves(moves, i + 1, search_moves, r,
                          [value |-> IF upd THEN value ELSE acc.value,
                           pv |-> IF upd THEN <<mv>> \o r[mv].pv ELSE acc.pv,
                           middle_node_count |-> acc.middle_node_count + r[mv].middle_nodes,
                           node_count |-> acc.node_count + r[mv].nodes])

OneSearcher_search(chain, search_moves, r) ==
    LET start == [value |-> MIN_EVAL_VALUE, pv |-> <<>>,
                  middle_node_count |-> 1, node_count |-> 1]
    IN  IF AutoOutcome(chain) = "Win"
        THEN [start EXCEPT !.value = MIN_EVAL_ROOT_MATE_VALUE]
        ELSE IF AutoOutcome(chain) = "Draw"
        THEN [start EXCEPT !.value = 0]
        ELSE SearchRootMoves(SemiLegal(chain), 1, search_moves, r, start)

\* the search reaches an interruption check only inside the middle search of
\* a child (every 1024 nodes of the first pass, and at the chunk boundary of
\* the neural search); a root move that ends the game is scored without one
SearchChecksIntr(chain, search_moves) ==
    AutoOutcome(chain) = "None" /\
    \E mv \in NormalMoves :
        mv \in SeqRange(SemiLegal(chain)) /\ IsSearched(mv, search_moves)


(***************************************************************************)
(* State.                                                                  *)
(***************************************************************************)
VARIABLES
    mainPc,            \* position of the main thread inside the Engine API
    mainBlocked,       \* main thread sleeps in Condvar::wait
    opCount,           \* Engine API calls made so far
    lastOp,            \* how the last completed API call ended
    quits,             \* Quit commands sent
    auxPc,             \* position of a second thread that calls Thinker::wait
    auxBlocked,        \* second thread sleeps in Condvar::wait
    auxWaits,          \* wait() calls of the second thread
    workerPc,          \* position of the worker thread
    cmd,               \* ThinkingParams of the Think being executed
    queue,             \* the mpsc channel
    sent,              \* history: commands sent, in order
    processed,         \* history: commands received by the worker, in order
    thinksDone,        \* history: ids of the Thinks executed to their end
    thinkerStopped,    \* Thinker::is_stopped
    intrStopped,       \* IntrChecker::is_stopped
    hasFirst,          \* IntrChecker::has_first
    timeoutPair,       \* IntrChecker::timeout_pair
    expired,           \* the clock: now.elapsed() >= duration of timeoutPair
    chain,             \* Engine::move_chain
    chainLock,         \* owner of the move-chain mutex
    depth,             \* locals of Thinker::think
    best_move,
    is_first,
    node_count,
    thinkRoot,         \* history: the chain when the think began
    completedBest,     \* history: best move of the last completed iteration
    interrupted,       \* history: an iteration of this think was interrupted
    iterations,        \* history: parity of the number of completed iterations
    writer,            \* the last MaxOut lines written by the thinker
    time_control,      \* Engine::time_control
    remaining_time,    \* Engine::remaining_time
    move_count_to_go,  \* Engine::move_count_to_go
    timeoutResult,     \* result of the last calculate_timeout
    search_args,       \* arguments of a call of OneSearcher::search on its own
    search_result,     \* what that call returned
    matrix_buf,        \* a run of MatrixBufferInner::do_elems
    sampled,           \* a call of Sample::samples on its own and its result
    trainer,           \* a Trainer with its gradient adder, algorithm and data
    files,             \* the files written by GdAlg::save
    selector,          \* a run of Selector::select
    frontend,          \* a protocol loop over its input lines
    converted,         \* a call of the Converter on its own
    deepening,         \* the deepening loop of Thinker::think on its own
    backprop           \* a call of compute with gradients on its own

mainVars == <<mainPc, opCount, lastOp, quits>>
waitVars == <<mainBlocked, auxBlocked>>
auxVars == <<auxPc, auxWaits>>
chanVars == <<queue, sent, processed>>
intrVars == <<intrStopped, hasFirst, timeoutPair, expired>>
thinkVars == <<depth, best_move, is_first, node_count, thinkRoot, completedBest, interrupted,
               iterations>>
timeVars == <<time_control, remaining_time, move_count_to_go, timeoutResult>>
\* state of the components that are exercised on their own
pureVars == <<search_args, search_result, matrix_buf, sampled, trainer,
             files, selector, frontend, converted,
                 deepening, backprop>>

vars == <<mainPc, mainBlocked, opCount, lastOp, quits, auxPc, auxBlocked, auxWaits,
          workerPc, cmd, queue, sent, processed, thinksDone, thinkerStopped,
          intrStopped, hasFirst, timeoutPair, expired, chain, chainLock,
          depth, best_move, is_first, node_count, thinkRoot, completedBest,
          interrupted, iterations, writer, time_control, remaining_time, move_count_to_go,
          timeoutResult, search_args, search_result, matrix_buf, sampled, trainer,
          files, selector, frontend, converted,
                 deepening, backprop>>

\* nothing is called outside the engine
NoCall == [none |-> TRUE]

PureIdle ==
    /\ search_args = NoCall /\ search_result = NoCall /\ matrix_buf = NoCall
    /\ sampled = NoCall /\ trainer = NoCall
    /\ files = NoCall /\ selector = NoCall /\ frontend = NoCall /\ converted = NoCall
    /\ deepening = NoCall /\ backprop = NoCall

NoTimeout == [some |-> FALSE, d |-> DurationZero]

SomeTimeout(d) == [some |-> TRUE, d |-> d]

\* ThinkingParams
ThinkingParams(search_moves, max_depth, max_node_count, mate, timeout, make, pv, best) ==
    [search_moves |-> search_moves, depth |-> max_depth, node_count |-> max_node_count,
     move_count_to_checkmate |-> mate, timeout |-> timeout,
     can_make_best_move |-> make, can_print_pv |-> pv,
     can_print_best_move_and_outcome |-> best]

NoParams ==
    ThinkingParams(NoSearchMoves, NoLimit, NoLimit, NoLimit, NoTimeout, FALSE, FALSE, FALSE)

\* ThreadCommand
Think(id, params) == [kind |-> "Think", id |-> id, params |-> params]

Quit(id) == [kind |-> "Quit", id |-> id, params |-> NoParams]

NoCommand == [kind |-> "None", id |-> 0, params |-> NoParams]

\* the arguments of go()
GoArg(search_moves, max_depth, max_node_count, mate, is_timeout, make, pv, best) ==
    [search_moves |-> search_moves, depth |-> max_depth, node_count |-> max_node_count,
     move_count_to_checkmate |-> mate, is_timeout |-> is_timeout,
     can_make_best_move |-> make, can_print_pv |-> pv,
     can_print_best_move_and_outcome |-> best]

\* uci_go passes (.., false, true, true); xboard_go_for_engine passes no
\* search moves and the flags of a game or of the analysis mode
GoArgs ==
    {GoArg(NoSearchMoves, NoLimit, NoLimit, NoLimit, FALSE, FALSE, TRUE, TRUE),
     GoArg(SomeSearchMoves({}), NoLimit, NoLimit, NoLimit, FALSE, FALSE, TRUE, TRUE),
     GoArg(SomeSearchMoves({"d"}), NoLimit, NoLimit, NoLimit, FALSE, FALSE, TRUE, TRUE),
     GoArg(SomeSearchMoves({"n1", "n2"}), min_depth + 1, NoLimit, NoLimit, FALSE, FALSE, TRUE, TRUE),
     GoArg(NoSearchMoves, NoLimit, 2 * MiddleNodeCount + 4, NoLimit, TRUE, FALSE, TRUE, TRUE),
     GoArg(NoSearchMoves, NoLimit, NoLimit, 2, FALSE, FALSE, TRUE, TRUE),
     GoArg(NoSearchMoves, NoLimit, NoLimit, NoLimit, TRUE, TRUE, FALSE, TRUE),
     GoArg(NoSearchMoves, NoLimit, NoLimit, NoLimit, FALSE, FALSE, TRUE, FALSE)}

\* the chains a mutator of do_move_chain installs
MutatorChains == {<<>>, <<"n2">>, <<"n1", "d">>, <<"n2", "w">>}

\* Engine::new and Thinker::new, IntrChecker::new
Init ==
    /\ mainPc = "idle" /\ mainBlocked = FALSE /\ opCount = 0 /\ lastOp = "new" /\ quits = 0
    /\ auxPc = "off" /\ auxBlocked = FALSE /\ auxWaits = 0
    /\ workerPc = "recv" /\ cmd = NoCommand
    /\ queue = <<>> /\ sent = <<>> /\ processed = <<>> /\ thinksDone = {}
    /\ thinkerStopped = TRUE
    /\ intrStopped = TRUE /\ hasFirst = TRUE /\ timeoutPair = NoTimeout /\ expired = FALSE
    /\ chain = <<>> /\ chainLock = "none"
    /\ depth = min_depth /\ best_move = NoMove /\ is_first = TRUE /\ node_count = 0
    /\ thinkRoot = <<>> /\ completedBest = NoMove /\ interrupted = FALSE /\ iterations = 0
    /\ writer = <<>>
    /\ time_control = Level(0, DurationZero)
    /\ remaining_time = Millis(5 * 60 * 1000)
    /\ move_count_to_go = 0
    /\ timeoutResult = DurationZero
    /\ PureIdle

(***************************************************************************)
(* Thinker: the condition-variable protocol.                               *)
(***************************************************************************)
BlockedWaiters ==
    (IF mainBlocked THEN {"main"} ELSE {}) \cup (IF auxBlocked THEN {"aux"} ELSE {})

\* Condvar::notify_one: wakes one of the sleeping threads, if any
notify_one ==
    IF BlockedWaiters = {}
    THEN UNCHANGED waitVars
    ELSE \E w \in BlockedWaiters :
            /\ mainBlocked' = (mainBlocked /\ w # "main")
            /\ auxBlocked' = (auxBlocked /\ w # "aux")

\* Thinker::stop
Thinker_stop ==
    /\ thinkerStopped' = TRUE
    /\ notify_one

\* a wait that returns without looking at is_stopped
Thinker_wait_returns_at_once(pc, next) ==
    /\ mainPc = pc
    /\ ~mainBlocked
    /\ mainPc' = next /\ mainBlocked' = FALSE
    /\ UNCHANGED auxBlocked

\* Thinker::wait of the main thread: the predicate is tested under the mutex
\* and the thread sleeps when it does not hold; a woken thread tests it again
Thinker_wait(pc, next) ==
    /\ mainPc = pc
    /\ ~mainBlocked
    /\ IF thinkerStopped
       THEN mainPc' = next /\ mainBlocked' = FALSE
       ELSE mainPc' = pc /\ mainBlocked' = TRUE
    /\ UNCHANGED auxBlocked

\* Condvar::wait may return without a notification
SpuriousWakeup ==
    /\ mainBlocked
    /\ mainBlocked' = FALSE
    /\ UNCHANGED <<mainVars, auxBlocked, auxVars, workerPc, cmd, chanVars, thinksDone,
                   thinkerStopped, intrVars, chain, chainLock, thinkVars, writer, timeVars, pureVars>>


(***************************************************************************)
(* Engine: the operations of the main thread.                              *)
(***************************************************************************)
ApiCalls == {"do_move_chain", "stop", "go", "quit"}

FirstPc(op) ==
    CASE op = "do_move_chain" -> "dmc_wait"
      [] op = "stop" -> "stop"
      [] op = "go" -> "go_stop"
      [] op = "quit" -> "quit_stop"

\* the protocol loop calls the next operation of the engine
MainCall ==
    /\ mainPc = "idle"
    /\ opCount < MaxOps
    /\ \E op \in ApiCalls : mainPc' = FirstPc(op)
    /\ opCount' = opCount + 1
    /\ UNCHANGED <<lastOp, quits, waitVars, auxVars, workerPc, cmd, chanVars, thinksDone,
                   thinkerStopped, intrVars, chain, chainLock, thinkVars, writer, timeVars, pureVars>>

\* Engine::stop
Stop ==
    /\ mainPc = "stop"
    /\ intrStopped' = TRUE
    /\ mainPc' = "idle"
    /\ lastOp' = "stop"
    /\ UNCHANGED <<opCount, quits, waitVars, auxVars, workerPc, cmd, chanVars, thinksDone,
                   thinkerStopped, hasFirst, timeoutPair, expired, chain, chainLock,
                   thinkVars, writer, timeVars, pureVars>>

\* Engine::do_move_chain: self.thinker.wait()
DoMoveChainWait ==
    /\ Thinker_wait("dmc_wait", "dmc_lock")
    /\ UNCHANGED <<opCount, lastOp, quits, auxVars, workerPc, cmd, chanVars, thinksDone,
                   thinkerStopped, intrVars, chain, chainLock, thinkVars, writer, timeVars, pureVars>>

\* Engine::do_move_chain: self.move_chain.lock()
DoMoveChainLock ==
    /\ mainPc = "dmc_lock"
    /\ chainLock = "none"
    /\ chainLock' = "main"
    /\ mainPc' = "dmc_run"
    /\ UNCHANGED <<opCount, lastOp, quits, waitVars, auxVars, workerPc, cmd, chanVars,
                   thinksDone, thinkerStopped, intrVars, chain, thinkVars, writer, timeVars, pureVars>>

\* Engine::do_move_chain: f(&mut *move_chain_g), then the guard is dropped
DoMoveChainRun ==
    /\ mainPc = "dmc_run"
    /\ \E c \in MutatorChains : chain' = c
    /\ chainLock' = "none"
    /\ mainPc' = "idle"
    /\ lastOp' = "do_move_chain"
    /\ UNCHANGED <<opCount, quits, waitVars, auxVars, workerPc, cmd, chanVars, thinksDone,
                   thinkerStopped, intrVars, thinkVars, writer, timeVars, pureVars>>

\* Engine::go: self.stop()
GoStop ==
    /\ mainPc = "go_stop"
    /\ intrStopped' = TRUE
    /\ mainPc' = "go_wait"
    /\ UNCHANGED <<opCount, lastOp, quits, waitVars, auxVars, workerPc, cmd, chanVars,
                   thinksDone, thinkerStopped, hasFirst, timeoutPair, expired, chain,
                   chainLock, thinkVars, writer, timeVars, pureVars>>

\* Engine::go: self.thinker.wait()
GoWait ==
    /\ Thinker_wait("go_wait", "go_outcome")
    /\ UNCHANGED <<opCount, lastOp, quits, auxVars, workerPc, cmd, chanVars, thinksDone,
                   thinkerStopped, intrVars, chain, chainLock, thinkVars, writer, timeVars, pureVars>>

\* go() that does not look at the outcome of the chain
GoOutcome_ignored ==
    /\ mainPc = "go_outcome"
    /\ chainLock = "none"
    /\ mainPc' = "go_start"
    /\ UNCHANGED <<opCount, lastOp, quits, waitVars, auxVars, workerPc, cmd, chanVars,
                   thinksDone, thinkerStopped, intrVars, chain, chainLock, thinkVars, writer,
                   timeVars, pureVars>>

\* Engine::go: is_outcome, computed under the move-chain lock
GoOutcome ==
    /\ mainPc = "go_outcome"
    /\ chainLock = "none"
    /\ IF AutoOutcome(chain) # "None"
       THEN mainPc' = "idle" /\ lastOp' = "go_outcome"
       ELSE mainPc' = "go_start" /\ lastOp' = lastOp
    /\ UNCHANGED <<opCount, quits, waitVars, auxVars, workerPc, cmd, chanVars, thinksDone,
                   thinkerStopped, intrVars, chain, chainLock, thinkVars, writer, timeVars, pureVars>>

\* start() that leaves the stopped flag of the thinker set
Thinker_start_keeps_stopped ==
    /\ mainPc = "go_start"
    /\ mainPc' = "go_intr_start"
    /\ UNCHANGED <<opCount, lastOp, quits, waitVars, auxVars, workerPc, cmd, chanVars,
                   thinksDone, thinkerStopped, intrVars, chain, chainLock, thinkVars, writer,
                   timeVars, pureVars>>

\* Thinker::start: *is_stopped_g = false
Thinker_start ==
    /\ mainPc = "go_start"
    /\ thinkerStopped' = FALSE
    /\ mainPc' = "go_intr_start"
    /\ UNCHANGED <<opCount, lastOp, quits, waitVars, auxVars, workerPc, cmd, chanVars,
                   thinksDone, intrVars, chain, chainLock, thinkVars, writer, timeVars, pureVars>>

\* start() that leaves the stop flag of the interruption checker set
IntrChecker_start_keeps_stop ==
    /\ mainPc = "go_intr_start"
    /\ mainPc' = "go_send"
    /\ UNCHANGED <<opCount, lastOp, quits, waitVars, auxVars, workerPc, cmd, chanVars,
                   thinksDone, thinkerStopped, intrVars, chain, chainLock, thinkVars, writer,
                   timeVars, pureVars>>

\* Thinker::start: self.searcher.intr_checker().start()
IntrChecker_start ==
    /\ mainPc = "go_intr_start"
    /\ intrStopped' = FALSE
    /\ mainPc' = "go_send"
    /\ UNCHANGED <<opCount, lastOp, quits, waitVars, auxVars, workerPc, cmd, chanVars,
                   thinksDone, thinkerStopped, hasFirst, timeoutPair, expired, chain,
                   chainLock, thinkVars, writer, timeVars, pureVars>>

\* Sender::send: fails when the receiver is gone, and the unwrap panics
ChannelSend(c, op) ==
    IF workerPc = "exited"
    THEN /\ mainPc' = "panicked"
         /\ UNCHANGED <<chanVars, lastOp>>
    ELSE /\ queue' = Append(queue, c)
         /\ sent' = Append(sent, [kind |-> c.kind, id |-> c.id])
         /\ processed' = processed
         /\ mainPc' = "idle"
         /\ lastOp' = op

\* Engine::go: the timeout, the ThinkingParams and the send
GoSend ==
    /\ mainPc = "go_send"
    /\ \E a \in GoArgs :
         LET needsChain == /\ a.is_timeout
                           /\ time_control.kind = "Level"
                           /\ move_count_to_go = 0
                           /\ time_control.mps > 0
             t == calculate_timeout(time_control, remaining_time, move_count_to_go, Len(chain))
             params == ThinkingParams(a.search_moves, a.depth, a.node_count,
                           a.move_count_to_checkmate,
                           IF a.is_timeout THEN SomeTimeout(t) ELSE NoTimeout,
                           a.can_make_best_move, a.can_print_pv,
                           a.can_print_best_move_and_outcome)
         IN  /\ needsChain => chainLock = "none"
             /\ ChannelSend(Think(opCount, params), "go")
    /\ UNCHANGED <<opCount, quits, waitVars, auxVars, workerPc, cmd, thinksDone,
                   thinkerStopped, intrVars, chain, chainLock, thinkVars, writer, timeVars, pureVars>>

\* Engine::quit: self.stop()
QuitStop ==
    /\ mainPc = "quit_stop"
    /\ intrStopped' = TRUE
    /\ mainPc' = "quit_wait"
    /\ UNCHANGED <<opCount, lastOp, quits, waitVars, auxVars, workerPc, cmd, chanVars,
                   thinksDone, thinkerStopped, hasFirst, timeoutPair, expired, chain,
                   chainLock, thinkVars, writer, timeVars, pureVars>>

\* Engine::quit: self.thinker.wait()
QuitWait ==
    /\ Thinker_wait("quit_wait", "quit_send")
    /\ UNCHANGED <<opCount, lastOp, quits, auxVars, workerPc, cmd, chanVars, thinksDone,
                   thinkerStopped, intrVars, chain, chainLock, thinkVars, writer, timeVars, pureVars>>

\* Engine::quit: self.sender.send(ThreadCommand::Quit)
QuitSend ==
    /\ mainPc = "quit_send"
    /\ ChannelSend(Quit(opCount), "quit")
    /\ quits' = IF workerPc = "exited" THEN quits ELSE quits + 1
    /\ UNCHANGED <<opCount, waitVars, auxVars, workerPc, cmd, thinksDone,
                   thinkerStopped, intrVars, chain, chainLock, thinkVars, writer, timeVars, pureVars>>

\* the protocol loop leaves: engine.join_thread() after engine.quit()
JoinCall ==
    /\ mainPc = "idle"
    /\ lastOp = "quit"
    /\ mainPc' = "join"
    /\ UNCHANGED <<opCount, lastOp, quits, waitVars, auxVars, workerPc, cmd, chanVars,
                   thinksDone, thinkerStopped, intrVars, chain, chainLock, thinkVars,
                   writer, timeVars, pureVars>>

\* Engine::join_thread: self.thread.join()
JoinThread ==
    /\ mainPc = "join"
    /\ workerPc = "exited"
    /\ mainPc' = "joined"
    /\ UNCHANGED <<opCount, lastOp, quits, waitVars, auxVars, workerPc, cmd, chanVars,
                   thinksDone, thinkerStopped, intrVars, chain, chainLock, thinkVars,
                   writer, timeVars, pureVars>>


(***************************************************************************)
(* The worker thread (the closure of Engine::new) and Thinker::think.      *)
(***************************************************************************)
AppendBounded(w, line) ==
    IF Len(w) < MaxOut THEN Append(w, line) ELSE Append(Tail(w), line)

PvLine(mv) == [t |-> "pv", m |-> mv]

BestMoveLine(mv) == [t |-> "bestmove", m |-> mv]

OutcomeLine(o) == [t |-> "outcome", m |-> o]

Min(a, b) == IF a < b THEN a ELSE b

\* a receive that takes the newest command of the channel
ReceiveNewest(q) == q[Len(q)]

\* receiver.recv(): the oldest command of the channel
Receive(q) == Head(q)

\* the channel after recv()
Received(q) == Tail(q)

\* loop { match receiver.recv().unwrap() { ... } }
WorkerRecv ==
    /\ workerPc = "recv"
    /\ queue # <<>>
    /\ LET c == Receive(queue)
       IN  /\ queue' = Received(queue)
           /\ processed' = Append(processed, [kind |-> c.kind, id |-> c.id])
           /\ IF c.kind = "Think"
              THEN workerPc' = "think_begin" /\ cmd' = c
              ELSE workerPc' = "exited" /\ cmd' = cmd
    /\ UNCHANGED <<mainVars, waitVars, auxVars, sent, thinksDone, thinkerStopped, intrVars,
                   chain, chainLock, thinkVars, writer, timeVars, pureVars>>

\* Syzygy::probe when tablebases are configured (a legal move or nothing),
\* nothing when they are not
SyzygyProbe(c) == {NoMove} \cup (LegalMoves(c) \cap {"n1"})

\* Thinker::think up to the loop: the chain is locked, the timeout is set,
\* the tablebases are probed
ThinkBegin ==
    /\ workerPc = "think_begin"
    /\ chainLock = "none"
    /\ chainLock' = "worker"
    /\ depth' = min_depth
    /\ timeoutPair' = cmd.params.timeout
    /\ expired' = (cmd.params.timeout.some /\ cmd.params.timeout.d = DurationZero)
    /\ \E b \in SyzygyProbe(chain) :
          /\ best_move' = b
          /\ workerPc' = IF b = NoMove THEN "think_loop" ELSE "think_finish"
    /\ is_first' = TRUE
    /\ node_count' = 0
    /\ thinkRoot' = chain
    /\ completedBest' = NoMove
    /\ interrupted' = FALSE
    /\ iterations' = 0
    /\ UNCHANGED <<mainVars, waitVars, auxVars, cmd, chanVars, thinksDone, thinkerStopped,
                   intrStopped, hasFirst, chain, writer, timeVars, pureVars>>

\* the mutant: the first flag is not looked at
IntrCheck_check_ignores_first(has_first, is_stopped, deadline_passed) ==
    IF is_stopped THEN "Stop"
    ELSE IF deadline_passed THEN "Timeout"
    ELSE "Ok"

\* IntrChecker::check over the values of its fields; deadline_passed is
\* timeout_pair being Some((now, duration)) with now.elapsed() >= duration
IntrCheck_check(has_first, is_stopped, deadline_passed) ==
    IF ~has_first
    THEN IF is_stopped THEN "Stop"
         ELSE IF deadline_passed THEN "Timeout"
         ELSE "Ok"
    ELSE "Ok"

\* IntrChecker::check, has_first being first
IntrChecker_check(first) == IntrCheck_check(first, intrStopped, timeoutPair.some /\ expired)

\* the break conditions of the deepening loop after a completed iteration
LoopBreaks(value, nodes) ==
    \/ value <= MIN_EVAL_MIDDLE_MATE_VALUE
    \/ value >= MAX_EVAL_MIDDLE_MATE_VALUE
    \/ (cmd.params.depth # NoLimit /\ depth + 1 > cmd.params.depth)
    \/ (cmd.params.node_count # NoLimit /\ nodes >= cmd.params.node_count)
    \/ /\ cmd.params.move_count_to_checkmate # NoLimit
       /\ move_count_to_checkmate(value, depth) # NoLimit
       /\ move_count_to_checkmate(value, depth) <= cmd.params.move_count_to_checkmate * 2

\* an interrupted iteration that throws the best move away
IterationInterrupted_drops_best ==
    /\ workerPc' = "think_finish"
    /\ interrupted' = TRUE
    /\ best_move' = NoMove
    /\ UNCHANGED <<completedBest, depth, is_first, node_count, iterations, writer, chainLock>>

\* Err(_) => break
IterationInterrupted ==
    /\ workerPc' = "think_finish"
    /\ interrupted' = TRUE
    /\ UNCHANGED <<best_move, completedBest, depth, is_first, node_count, iterations,
                   writer, chainLock>>

\* Ok((value, _, search_node_count, pv)) => ...
IterationCompleted(res) ==
    LET mv == IF res.pv = <<>> THEN NoMove ELSE Head(res.pv)
        nodes == Min(node_count + res.node_count, NodeCap)
    IN  /\ best_move' = mv
        /\ completedBest' = mv
        /\ node_count' = nodes
        /\ interrupted' = interrupted
        /\ iterations' = 1 - iterations
        /\ \E io \in (IF cmd.params.can_print_pv THEN {"ok", "error"} ELSE {"ok"}) :
              IF io = "error"
              THEN /\ workerPc' = "err"
                   /\ chainLock' = "none"
                   /\ UNCHANGED <<depth, is_first, writer>>
              ELSE /\ writer' = IF cmd.params.can_print_pv
                                THEN AppendBounded(writer, PvLine(mv))
                                ELSE writer
                   /\ chainLock' = chainLock
                   /\ IF LoopBreaks(res.value, nodes)
                      THEN /\ workerPc' = "think_finish"
                           /\ UNCHANGED <<depth, is_first>>
                      ELSE /\ workerPc' = "think_loop"
                           /\ depth' = IF depth < DepthCap THEN depth + 1 ELSE depth
                           /\ is_first' = FALSE

\* one iteration of the deepening loop of Thinker::think
ThinkIterate ==
    /\ workerPc = "think_loop"
    /\ hasFirst' = is_first
    /\ IF SearchChecksIntr(chain, cmd.params.search_moves) /\ IntrChecker_check(is_first) # "Ok"
       THEN IterationInterrupted
       ELSE \E r \in [NormalMoves -> MiddleResults(depth - 1)] :
               IterationCompleted(OneSearcher_search(chain, cmd.params.search_moves, r))
    /\ thinkRoot' = thinkRoot
    /\ UNCHANGED <<mainVars, waitVars, auxVars, cmd, chanVars, thinksDone, thinkerStopped,
                   intrStopped, timeoutPair, expired, chain, timeVars, pureVars>>

\* the wall clock passes the deadline of the timeout pair
Tick ==
    /\ workerPc = "think_loop"
    /\ timeoutPair.some
    /\ ~expired
    /\ expired' = TRUE
    /\ UNCHANGED <<mainVars, waitVars, auxVars, workerPc, cmd, chanVars, thinksDone,
                   thinkerStopped, intrStopped, hasFirst, timeoutPair, chain, chainLock,
                   thinkVars, writer, timeVars, pureVars>>

\* a variant that makes the best move whatever can_make_best_move says
ThinkFinish_makes_always ==
    /\ workerPc = "think_finish"
    /\ LET has == best_move # NoMove
           prints == cmd.params.can_print_best_move_and_outcome /\ has
           makes == has
           pushed == IF makes THEN Append(chain, best_move) ELSE chain
           outcome == IF makes THEN AutoOutcome(pushed) ELSE "None"
           printsOutcome == makes /\ cmd.params.can_print_best_move_and_outcome
                                  /\ outcome # "None"
           w1 == IF prints THEN AppendBounded(writer, BestMoveLine(best_move)) ELSE writer
           w2 == IF printsOutcome THEN AppendBounded(w1, OutcomeLine(outcome)) ELSE w1
       IN  \E io \in {"ok"} \cup (IF prints THEN {"best_error"} ELSE {})
                            \cup (IF printsOutcome THEN {"outcome_error"} ELSE {}) :
              CASE io = "best_error" ->
                      /\ workerPc' = "err"
                      /\ UNCHANGED <<chain, writer>>
                [] io = "outcome_error" ->
                      /\ workerPc' = "err"
                      /\ chain' = pushed
                      /\ writer' = w1
                [] io = "ok" ->
                      /\ workerPc' = "think_stop"
                      /\ chain' = pushed
                      /\ writer' = w2
    /\ chainLock' = "none"
    /\ UNCHANGED <<mainVars, waitVars, auxVars, cmd, chanVars, thinksDone, thinkerStopped,
                   intrVars, thinkVars, timeVars, pureVars>>

\* Thinker::think after the loop: print_best_move, push, print_outcome; the
\* chain guard is dropped at the end of the block or by the `?` of a print
ThinkFinish ==
    /\ workerPc = "think_finish"
    /\ LET has == best_move # NoMove
           prints == cmd.params.can_print_best_move_and_outcome /\ has
           makes == cmd.params.can_make_best_move /\ has
           pushed == IF makes THEN Append(chain, best_move) ELSE chain
           outcome == IF makes THEN AutoOutcome(pushed) ELSE "None"
           printsOutcome == makes /\ cmd.params.can_print_best_move_and_outcome
                                  /\ outcome # "None"
           w1 == IF prints THEN AppendBounded(writer, BestMoveLine(best_move)) ELSE writer
           w2 == IF printsOutcome THEN AppendBounded(w1, OutcomeLine(outcome)) ELSE w1
       IN  \E io \in {"ok"} \cup (IF prints THEN {"best_error"} ELSE {})
                            \cup (IF printsOutcome THEN {"outcome_error"} ELSE {}) :
              CASE io = "best_error" ->
                      /\ workerPc' = "err"
                      /\ UNCHANGED <<chain, writer>>
                [] io = "outcome_error" ->
                      /\ workerPc' = "err"
                      /\ chain' = pushed
                      /\ writer' = w1
                [] io = "ok" ->
                      /\ workerPc' = "think_stop"
                      /\ chain' = pushed
                      /\ writer' = w2
    /\ chainLock' = "none"
    /\ UNCHANGED <<mainVars, waitVars, auxVars, cmd, chanVars, thinksDone, thinkerStopped,
                   intrVars, thinkVars, timeVars, pureVars>>

\* the command and the locals of think are dropped when the think is over
ThinkLocalsDropped ==
    /\ cmd' = NoCommand
    /\ depth' = min_depth /\ best_move' = NoMove /\ is_first' = TRUE /\ node_count' = 0
    /\ thinkRoot' = <<>> /\ completedBest' = NoMove /\ interrupted' = FALSE
    /\ iterations' = 0
    /\ expired' = FALSE

\* Thinker::think: self.stop(); Ok(())
ThinkStop ==
    /\ workerPc = "think_stop"
    /\ Thinker_stop
    /\ workerPc' = "recv"
    /\ thinksDone' = thinksDone \cup {cmd.id}
    /\ ThinkLocalsDropped
    /\ UNCHANGED <<mainVars, auxVars, chanVars, intrStopped, hasFirst, timeoutPair,
                   chain, chainLock, writer, timeVars, pureVars>>

\* an error arm of the worker that does not stop the thinker
WorkerErr_without_stop ==
    /\ workerPc = "err"
    /\ workerPc' = "recv"
    /\ thinksDone' = thinksDone \cup {cmd.id}
    /\ ThinkLocalsDropped
    /\ UNCHANGED <<mainVars, waitVars, auxVars, chanVars, thinkerStopped, intrStopped, hasFirst,
                   timeoutPair, chain, chainLock, writer, timeVars, pureVars>>

\* the worker on Err(err): thread_thinker.stop(); eprintln!(...)
WorkerErrStop ==
    /\ workerPc = "err"
    /\ Thinker_stop
    /\ workerPc' = "recv"
    /\ thinksDone' = thinksDone \cup {cmd.id}
    /\ ThinkLocalsDropped
    /\ UNCHANGED <<mainVars, auxVars, chanVars, intrStopped, hasFirst, timeoutPair,
                   chain, chainLock, writer, timeVars, pureVars>>

(***************************************************************************)
(* A second thread that waits for the thinker (Thinker::wait is public and *)
(* the thinker is shared through Engine::thinker).                         *)
(***************************************************************************)
AuxCall ==
    /\ auxPc = "idle"
    /\ auxWaits < MaxAuxWaits
    /\ auxPc' = "wait"
    /\ auxWaits' = auxWaits + 1
    /\ UNCHANGED <<mainVars, waitVars, workerPc, cmd, chanVars, thinksDone, thinkerStopped,
                   intrVars, chain, chainLock, thinkVars, writer, timeVars, pureVars>>

AuxWait ==
    /\ auxPc = "wait"
    /\ ~auxBlocked
    /\ IF thinkerStopped
       THEN auxPc' = "idle" /\ auxBlocked' = FALSE
       ELSE auxPc' = "wait" /\ auxBlocked' = TRUE
    /\ UNCHANGED <<mainVars, mainBlocked, auxWaits, workerPc, cmd, chanVars, thinksDone,
                   thinkerStopped, intrVars, chain, chainLock, thinkVars, writer, timeVars, pureVars>>

(***************************************************************************)
(* Specifications.                                                         *)
(***************************************************************************)
MainNext ==
    \/ MainCall \/ Stop
    \/ DoMoveChainWait \/ DoMoveChainLock \/ DoMoveChainRun
    \/ GoStop \/ GoWait \/ GoOutcome \/ Thinker_start \/ IntrChecker_start \/ GoSend
    \/ QuitStop \/ QuitWait \/ QuitSend
    \/ JoinCall \/ JoinThread

WorkerNext ==
    \/ WorkerRecv \/ ThinkBegin \/ ThinkIterate \/ ThinkFinish \/ ThinkStop \/ WorkerErrStop

Next == MainNext \/ WorkerNext \/ Tick \/ SpuriousWakeup

Spec == Init /\ [][Next]_vars

\* the engine as the protocol loops drive it: quit() is the last call and
\* join_thread() follows it; both threads are scheduled
LoopCall == MainCall /\ quits = 0 /\ lastOp # "quit"

LoopMainNext ==
    \/ LoopCall \/ Stop
    \/ DoMoveChainWait \/ DoMoveChainLock \/ DoMoveChainRun
    \/ GoStop \/ GoWait \/ GoOutcome \/ Thinker_start \/ IntrChecker_start \/ GoSend
    \/ QuitStop \/ QuitWait \/ QuitSend
    \/ JoinCall \/ JoinThread

LoopNext == LoopMainNext \/ WorkerNext \/ Tick \/ SpuriousWakeup

FairSpec == Init /\ [][LoopNext]_vars /\ WF_vars(LoopMainNext) /\ WF_vars(WorkerNext)

\* the engine with a second waiter
WaitersInit ==
    /\ mainPc = "idle" /\ mainBlocked = FALSE /\ opCount = 0 /\ lastOp = "new" /\ quits = 0
    /\ auxPc = "idle" /\ auxBlocked = FALSE /\ auxWaits = 0
    /\ workerPc = "recv" /\ cmd = NoCommand
    /\ queue = <<>> /\ sent = <<>> /\ processed = <<>> /\ thinksDone = {}
    /\ thinkerStopped = TRUE
    /\ intrStopped = TRUE /\ hasFirst = TRUE /\ timeoutPair = NoTimeout /\ expired = FALSE
    /\ chain = <<>> /\ chainLock = "none"
    /\ depth = min_depth /\ best_move = NoMove /\ is_first = TRUE /\ node_count = 0
    /\ thinkRoot = <<>> /\ completedBest = NoMove /\ interrupted = FALSE /\ iterations = 0
    /\ writer = <<>>
    /\ time_control = Level(0, DurationZero)
    /\ remaining_time = Millis(5 * 60 * 1000)
    /\ move_count_to_go = 0
    /\ timeoutResult = DurationZero
    /\ PureIdle

WaitersNext == MainNext \/ WorkerNext \/ Tick \/ SpuriousWakeup \/ AuxCall \/ AuxWait

WaitersSpec == WaitersInit /\ [][WaitersNext]_vars


(***************************************************************************)
(* The time-control arithmetic on its own: the settings are drawn and go() *)
(* computes the timeout from them.                                         *)
(***************************************************************************)
\* number of half-moves of the chains the timeout is computed for
MaxHalfMoves == 7

TimeControls ==
    {Level(mps, Millis(inc)) : mps \in {0, 1, 2, 3, 40}, inc \in {0, 1, 1000, 12001}}
    \cup {Fixed(Millis(t)) : t \in {300, 500, 501, 2000}}

RemainingTimes == {Millis(t) : t \in {0, 400, 499, 500, 501, 1000, 30000, 300000}}

MoveCountsToGo == {0, 1, 2, 3, 7}

HalfMoveChains == {[i \in 1..n |-> "n1"] : n \in 0..MaxHalfMoves}

TimeInit ==
    /\ mainPc = "go_send" /\ mainBlocked = FALSE /\ opCount = 1 /\ lastOp = "new" /\ quits = 0
    /\ auxPc = "off" /\ auxBlocked = FALSE /\ auxWaits = 0
    /\ workerPc = "recv" /\ cmd = NoCommand
    /\ queue = <<>> /\ sent = <<>> /\ processed = <<>> /\ thinksDone = {}
    /\ thinkerStopped = FALSE
    /\ intrStopped = FALSE /\ hasFirst = TRUE /\ timeoutPair = NoTimeout /\ expired = FALSE
    /\ chain \in HalfMoveChains /\ chainLock = "none"
    /\ depth = min_depth /\ best_move = NoMove /\ is_first = TRUE /\ node_count = 0
    /\ thinkRoot = <<>> /\ completedBest = NoMove /\ interrupted = FALSE /\ iterations = 0
    /\ writer = <<>>
    /\ time_control \in TimeControls
    /\ remaining_time \in RemainingTimes
    /\ move_count_to_go \in MoveCountsToGo
    /\ timeoutResult = NoTimeout
    /\ PureIdle

\* Engine::go: Some(self.calculate_timeout())
GoTimeout ==
    /\ mainPc = "go_send"
    /\ ~timeoutResult.some
    /\ timeoutResult' = SomeTimeout(calculate_timeout(time_control, remaining_time,
                                                      move_count_to_go, Len(chain)))
    /\ UNCHANGED <<mainVars, waitVars, auxVars, workerPc, cmd, chanVars, thinksDone,
                   thinkerStopped, intrVars, chain, chainLock, thinkVars, writer,
                   time_control, remaining_time, move_count_to_go, pureVars>>

TimeNext == GoTimeout

TimeSpec == TimeInit /\ [][TimeNext]_vars

(***************************************************************************)
(* Properties.                                                             *)
(***************************************************************************)
ThinkPending == \E i \in 1..Len(queue) : queue[i].kind = "Think"

ThinkPcs == {"think_begin", "think_loop", "think_finish", "think_stop", "err"}

ThinkExecuting == workerPc \in ThinkPcs

PendingThinks == Cardinality({i \in 1..Len(queue) : queue[i].kind = "Think"})

\* C1: the mutator of do_move_chain runs only after wait() has returned with
\* the thinker idle: while the main thread is past the wait of do_move_chain
\* (about to lock the chain, or running the mutator under the lock) no Think
\* is in the channel or being executed by the worker, and the mutator runs
\* with the move-chain lock held by the main thread.
C1_MutatorExcludesThink ==
    /\ mainPc \in {"dmc_lock", "dmc_run"} => ~ThinkPending /\ ~ThinkExecuting
    /\ mainPc = "dmc_run" => chainLock = "main"

C1_Witness == mainPc = "dmc_run" /\ thinksDone # {} /\ lastOp = "go"

\* C2: when go() is about to send a Think, no Think is pending or running and
\* the stop flag of the interruption checker is clear; at most one Think is
\* pending or running at any time; and while a Think is pending or running
\* the stop flag is set only by a stop the main thread raised after the
\* dispatch of that Think.
C2_GoCancelsBeforeDispatch ==
    /\ mainPc = "go_send" => ~ThinkPending /\ ~ThinkExecuting /\ ~intrStopped
    /\ PendingThinks + (IF ThinkExecuting THEN 1 ELSE 0) <= 1
    /\ (ThinkPending \/ ThinkExecuting) /\ intrStopped
          => lastOp = "stop" \/ mainPc \in {"go_wait", "quit_wait"}

C2_Witness == mainPc = "go_send" /\ thinksDone # {} /\ lastOp = "go"

C4_QuitAndJoinReturn == (mainPc = "quit_stop") ~> (mainPc = "joined")

\* C5: whenever the thinker is idle, no thread sleeps in Thinker::wait().
C5_AllWaitersReleased == thinkerStopped => ~mainBlocked /\ ~auxBlocked

\* C6: a think that reaches its end has a best move, and the move is a legal
\* move of the position the think started from.
C6_BestMoveIsLegalRootMove ==
    workerPc = "think_stop" => best_move \in LegalMoves(thinkRoot)

\* C7: when go() finds an outcome on the chain it returns at once: the step
\* sends nothing, leaves the thinker idle, writes nothing and keeps the chain;
\* and after such a go() the thinker is idle with no Think pending or running.
C7_GoOnOutcomeDoesNothing ==
    /\ [](lastOp = "go_outcome" /\ mainPc = "idle"
            => thinkerStopped /\ ~ThinkPending /\ ~ThinkExecuting)
    /\ [][(mainPc = "go_outcome" /\ AutoOutcome(chain) # "None" /\ mainPc' # mainPc)
            => (mainPc' = "idle" /\ queue' = queue /\ sent' = sent /\ thinkerStopped'
                /\ writer' = writer /\ chain' = chain)]_vars

C7_Witness == lastOp = "go_outcome" /\ mainPc = "idle" /\ thinksDone # {}

\* C8: the commands the worker has received are, in order, the first commands
\* that were sent; and when the worker has exited, every Think it received
\* before the Quit has been executed to its end.
C8_FifoOrder ==
    /\ Len(processed) <= Len(sent)
    /\ processed = SubSeq(sent, 1, Len(processed))
    /\ workerPc = "exited" =>
          \A i \in 1..Len(processed) :
             processed[i].kind = "Think" => processed[i].id \in thinksDone

C8_Witness ==
    /\ workerPc = "exited"
    /\ Len(sent) > Len(processed)
    /\ \E i \in 1..Len(processed) : processed[i].kind = "Think"

\* the move of the last best-move line of the writer
RECURSIVE LastBestMove(_)
LastBestMove(w) ==
    IF w = <<>> THEN NoMove
    ELSE IF w[Len(w)].t = "bestmove" THEN w[Len(w)].m
    ELSE LastBestMove(SubSeq(w, 1, Len(w) - 1))

\* C9: when a think ends after an interrupted iteration, its best move is the
\* best move of the last completed iteration (there is one), and that move
\* is the best move written when the best move is to be printed.
C9_InterruptedKeepsPreviousBest ==
    workerPc = "think_stop" /\ interrupted =>
        /\ completedBest # NoMove
        /\ best_move = completedBest
        /\ cmd.params.can_print_best_move_and_outcome
              => LastBestMove(writer) = completedBest

C9_Witness ==
    /\ workerPc = "think_stop" /\ interrupted
    /\ cmd.params.can_print_best_move_and_outcome
    /\ best_move = "n2"

\* the timeout as the time-control rule states it
MovesToGo ==
    IF move_count_to_go > 0 THEN move_count_to_go
    ELSE IF time_control.mps > 0
         THEN time_control.mps - ((Len(chain) \div 2) % time_control.mps)
         ELSE 30

LevelTimeout ==
    LET t == DurAdd(DurDiv(remaining_time, MovesToGo), DurDiv(time_control.inc, 2))
    IN  IF DurGe(t, remaining_time)
        THEN (IF DurGt(remaining_time, Millis(500))
              THEN DurSub(remaining_time, Millis(500)) ELSE Millis(0))
        ELSE t

\* C10: for Level(mps, inc) the timeout go() computes is
\* remaining/moves_to_go + inc/2, or max(remaining - 500 ms, 0) when that is
\* at least remaining; with Level(0, 0), 5 minutes and no moves to go it is
\* 10 seconds.
C10_LevelTimeout ==
    timeoutResult.some /\ time_control.kind = "Level" =>
        /\ timeoutResult.d = LevelTimeout
        /\ (time_control = Level(0, Millis(0)) /\ remaining_time = Millis(300000)
              /\ move_count_to_go = 0) => timeoutResult.d = Millis(10000)

C10_Witness ==
    /\ timeoutResult = SomeTimeout(Millis(10000))
    /\ time_control = Level(0, Millis(0))
    /\ remaining_time = Millis(300000)
    /\ move_count_to_go = 0

\* C11 as stated: with Level(0, 0), no moves to go and 400 ms remaining the
\* timeout go() computes is 0 ms.
C11_LowTimeIsZero ==
    (timeoutResult.some /\ time_control = Level(0, Millis(0))
        /\ move_count_to_go = 0 /\ remaining_time = Millis(400))
      => timeoutResult.d = Millis(0)

\* C11 amended: with Level(0, 0), no moves to go and 400 ms remaining the
\* timeout go() computes is 400 ms / 30 = 13 333 333 ns: the quotient is
\* below the remaining time, so the clamp does not apply.
C11_LowTimeIsThirtieth ==
    (timeoutResult.some /\ time_control = Level(0, Millis(0))
        /\ move_count_to_go = 0 /\ remaining_time = Millis(400))
      => timeoutResult.d = [ms |-> 13, ns |-> 333333]

C11_Witness ==
    /\ timeoutResult.some /\ timeoutResult.d = [ms |-> 13, ns |-> 333333]
    /\ time_control = Level(0, Millis(0))
    /\ move_count_to_go = 0 /\ remaining_time = Millis(400)

(***************************************************************************)
(* MiddleSearcher and NeuralSearcher.  A board is the chain that leads to  *)
(* it.  The interruption checker is the empty one: the searches are run to *)
(* their end.                                                              *)
(***************************************************************************)
\* Board::make_move(mv) is Ok
make_move_ok(board, mv) == mv \in LegalMoves(board)

has_legal_moves(board) == LegalMoves(board) # {}

\* Board::is_check, asked of a board without legal moves
is_check(board) == LastMove(board) = "w"

\* Option<usize>: None
NoLeaf == -1

\* Eval::evaluate: the value of a board where the game goes on
EvalValues == {-40, 40}

EvalFuns == [NormalMoves -> EvalValues]

evaluate(eval, board) == eval[LastMove(board)]

\* Converter::matrix_col_to_move on the legal moves of a board: one of them,
\* or none
Policies ==
    {p \in [NormalMoves -> Moves \cup {NoMove}] :
        \A b \in NormalMoves : p[b] \in LegalMoves(<<b>>) \cup {NoMove}}

\* the reverse of a sequence
Reverse(s) == [k \in 1..Len(s) |-> s[Len(s) + 1 - k]]

\* NeuralSearcher::search, one principal variation: a move is pushed for each
\* output of the network while a move is decoded and made
RECURSIVE ExtendPv(_, _, _, _)
ExtendPv(board, pv, n, policy) ==
    LET tmp_board == board \o pv
        mv == policy[LastMove(tmp_board)]
    IN  IF n = 0 \/ ~has_legal_moves(tmp_board) \/ mv = NoMove \/ ~make_move_ok(tmp_board, mv)
        THEN pv
        ELSE ExtendPv(board, Append(pv, mv), n - 1, policy)

\* a variant that hands the principal variations back in reverse order
NeuralSearcher_search_reversed(board, pvs, plies, policy) ==
    Reverse([j \in 1..Len(pvs) |-> ExtendPv(board, pvs[j], plies, policy)])

NeuralSearcher_search(board, pvs, plies, policy) ==
    [j \in 1..Len(pvs) |-> ExtendPv(board, pvs[j], plies, policy)]

\* the replay of a neural tail from a leaf, up to the first move that fails
RECURSIVE ReplayTail(_, _, _)
ReplayTail(tmp_board, tail, neural_ply) ==
    IF tail = <<>> \/ ~make_move_ok(tmp_board, Head(tail))
    THEN [board |-> tmp_board, neural_ply |-> neural_ply]
    ELSE ReplayTail(Append(tmp_board, Head(tail)), Tail(tail), neural_ply + 1)

\* the second closure of MiddleSearcher::search
NeuralLeafValue(new_board, neural_pv, middle_depth, d, eval) ==
    LET w == ReplayTail(new_board, SubSeq(neural_pv, middle_depth + 1, Len(neural_pv)), 0)
        value == IF ~has_legal_moves(w.board)
                 THEN IF is_check(w.board)
                      THEN IF w.neural_ply > 0
                           THEN MIN_EVAL_MATE_VALUE - (d - middle_depth - w.neural_ply)
                           ELSE MIN_EVAL_MIDDLE_MATE_VALUE
                      ELSE 0
                 ELSE evaluate(eval, w.board)
    IN  [value |-> IF w.neural_ply % 2 = 0 THEN value ELSE -value,
         neural_ply |-> w.neural_ply]

\* a leaf with legal moves: f(board, current_pv, leaf_idx); the first pass
\* records the prefix and values the leaf 0, the second values the neural pv
LeafResult(board, current_pv, st, ctx) ==
    LET leaf_idx == st.leaf_count
        st1 == [st EXCEPT !.leaf_count = @ + 1]
    IN  IF ctx.pass = 1
        THEN [value |-> 0, leaf_idx |-> leaf_idx,
              st |-> [st1 EXCEPT !.neural_pvs = Append(@, current_pv)]]
        ELSE LET v == NeuralLeafValue(board, ctx.neural_pvs[leaf_idx + 1],
                                      ctx.middle_depth, ctx.depth, ctx.eval)
             IN  [value |-> v.value, leaf_idx |-> leaf_idx,
                  st |-> [st1 EXCEPT !.neural_node_count = @ + v.neural_ply,
                                     !.leaves = Append(@, [leaf_idx |-> leaf_idx,
                                                           path |-> current_pv])]]

\* e, with x computed first (x is the state handed on; computing it here
\* keeps the evaluation from nesting over the whole tree)
After(x, e) == IF x = x THEN e ELSE e

\* MiddleSearcher::nega_max_with_fun_ref.  st holds what the calls share:
\* pvs, node_count, leaf_count, the neural_pvs the first closure collects and
\* the neural_node_count the second closure counts
RECURSIVE nega_max(_, _, _, _, _, _)
RECURSIVE nega_max_moves(_, _, _, _, _, _, _, _)
nega_max(board, current_pv, ply, middle_depth, st, ctx) ==
    LET st1 == [st EXCEPT !.node_count = @ + 1]
    IN  IF middle_depth <= 0
        THEN LET st2 == [st1 EXCEPT !.pvs[ply] = <<>>]
             IN  IF ~has_legal_moves(board)
                 THEN [value |-> IF is_check(board) THEN MIN_EVAL_MIDDLE_MATE_VALUE ELSE 0,
                       leaf_idx |-> NoLeaf, st |-> st2]
                 ELSE LeafResult(board, current_pv, st2, ctx)
        ELSE LET acc == nega_max_moves(board, SemiLegal(board), 1, current_pv, ply,
                                       middle_depth,
                                       [best_value |-> MIN_EVAL_VALUE, best_leaf_idx |-> NoLeaf,
                                        are_moves |-> FALSE, st |-> st1],
                                       ctx)
             IN  IF ~acc.are_moves
                 THEN [value |-> IF is_check(board)
                                 THEN MIN_EVAL_MIDDLE_MATE_VALUE - middle_depth ELSE 0,
                       leaf_idx |-> NoLeaf, st |-> acc.st]
                 ELSE [value |-> acc.best_value, leaf_idx |-> acc.best_leaf_idx, st |-> acc.st]

\* the loop over the moves of an inner node, from the i-th move on
nega_max_moves(board, moves, i, current_pv, ply, middle_depth, acc, ctx) ==
    IF i > Len(moves) THEN acc
    ELSE LET mv == moves[i]
         IN  IF ~make_move_ok(board, mv)
             THEN nega_max_moves(board, moves, i + 1, current_pv, ply, middle_depth, acc, ctx)
             ELSE LET res == nega_max(Append(board, mv), Append(current_pv, mv), ply + 1,
                                      middle_depth - 1, acc.st, ctx)
                      value == -(res.value)
                      upd == value > acc.best_value
                      pvs1 == res.st.pvs
                      acc1 == [best_value |-> IF upd THEN value ELSE acc.best_value,
                               best_leaf_idx |-> IF upd THEN res.leaf_idx
                                                 ELSE acc.best_leaf_idx,
                               are_moves |-> TRUE,
                               st |-> IF upd
                                      THEN [res.st EXCEPT !.pvs[ply] = <<mv>> \o pvs1[ply + 1]]
                                      ELSE res.st]
                  IN  After(acc1, nega_max_moves(board, moves, i + 1, current_pv, ply,
                                                 middle_depth, acc1, ctx))

\* the state of a pass of MiddleSearcher::search at its start
PassStart(middle_depth, middle_node_count) ==
    [pvs |-> [p \in 0..middle_depth |-> <<>>], node_count |-> middle_node_count,
     leaf_count |-> 0, neural_pvs |-> <<>>, neural_node_count |-> 0, leaves |-> <<>>]

\* MiddleSearcher::search(board, middle_depth, depth)
MiddleSearcher_search(board, middle_depth, d, eval, policy) ==
    LET one == nega_max(board, <<>>, 0, middle_depth, PassStart(middle_depth, 1),
                        [pass |-> 1, depth |-> d, middle_depth |-> middle_depth,
                         eval |-> eval, neural_pvs |-> <<>>])
    IN  IF one.value <= MIN_EVAL_MATE_VALUE \/ one.value >= MAX_EVAL_MATE_VALUE
           \/ one.st.neural_pvs = <<>>
        THEN [value |-> one.value, middle_nodes |-> one.st.node_count,
              nodes |-> one.st.node_count, pv |-> one.st.pvs[0],
              first_leaves |-> one.st.neural_pvs, neural_pvs |-> one.st.neural_pvs,
              leaves |-> <<>>]
        ELSE LET neural_pvs == NeuralSearcher_search(board, one.st.neural_pvs,
                                                     d - middle_depth, policy)
                 two == nega_max(board, <<>>, 0, middle_depth,
                                 PassStart(middle_depth, one.st.node_count + 1),
                                 [pass |-> 2, depth |-> d, middle_depth |-> middle_depth,
                                  eval |-> eval, neural_pvs |-> neural_pvs])
             IN  [value |-> two.value, middle_nodes |-> two.st.node_count,
                  nodes |-> two.st.node_count + two.st.neural_node_count,
                  pv |-> IF two.leaf_idx # NoLeaf THEN neural_pvs[two.leaf_idx + 1]
                         ELSE two.st.pvs[0],
                  first_leaves |-> one.st.neural_pvs, neural_pvs |-> neural_pvs,
                  leaves |-> two.st.leaves]

(***************************************************************************)
(* The root search on its own: a position, a depth, search moves, an       *)
(* evaluation function and a network are drawn and OneSearcher::search is  *)
(* called once.                                                            *)
(***************************************************************************)
\* largest depth of the searches
MaxSearchDepth == 5

\* positions where the game goes on
SearchRoots == {<<>>, <<"n2">>, <<"n1", "n2">>, <<"n2", "n1">>}

SearchMoveSets ==
    {NoSearchMoves, SomeSearchMoves({"n1", "n2"}), SomeSearchMoves({"n2"}),
     SomeSearchMoves({"d", "n1"})}

SearchArgs ==
    [chain : SearchRoots, depth : min_depth..MaxSearchDepth, search_moves : SearchMoveSets,
     eval : EvalFuns, policy : Policies]

\* self.middle_searcher.search(move_chain.last(), self.middle_depth, depth - 1)
\* for each root move after which the game goes on
RootMiddleResults(args) ==
    [mv \in NormalMoves |->
        MiddleSearcher_search(Append(args.chain, mv), MIDDLE_DEPTH, args.depth - 1,
                              args.eval, args.policy)]

EngineIdle ==
    /\ mainPc = "idle" /\ mainBlocked = FALSE /\ opCount = 0 /\ lastOp = "new" /\ quits = 0
    /\ auxPc = "off" /\ auxBlocked = FALSE /\ auxWaits = 0
    /\ workerPc = "recv" /\ cmd = NoCommand
    /\ queue = <<>> /\ sent = <<>> /\ processed = <<>> /\ thinksDone = {}
    /\ thinkerStopped = TRUE
    /\ intrStopped = TRUE /\ hasFirst = TRUE /\ timeoutPair = NoTimeout /\ expired = FALSE
    /\ chain = <<>> /\ chainLock = "none"
    /\ depth = min_depth /\ best_move = NoMove /\ is_first = TRUE /\ node_count = 0
    /\ thinkRoot = <<>> /\ completedBest = NoMove /\ interrupted = FALSE /\ iterations = 0
    /\ writer = <<>>
    /\ time_control = Level(0, DurationZero)
    /\ remaining_time = Millis(5 * 60 * 1000)
    /\ move_count_to_go = 0
    /\ timeoutResult = DurationZero

engineVars ==
    <<mainVars, waitVars, auxVars, workerPc, cmd, chanVars, thinksDone, thinkerStopped,
      intrVars, chain, chainLock, thinkVars, writer, timeVars>>

SearchInit ==
    /\ EngineIdle
    /\ search_args \in SearchArgs
    /\ search_result = NoCall
    /\ matrix_buf = NoCall /\ sampled = NoCall /\ trainer = NoCall
    /\ files = NoCall /\ selector = NoCall /\ frontend = NoCall /\ converted = NoCall
    /\ deepening = NoCall /\ backprop = NoCall

\* OneSearcher::search(move_chain, depth, search_moves)
SearchCall ==
    /\ search_args # NoCall
    /\ search_result = NoCall
    /\ search_result' = OneSearcher_search(search_args.chain, search_args.search_moves,
                                           RootMiddleResults(search_args))
    /\ UNCHANGED <<engineVars, search_args, matrix_buf, sampled, trainer,
                 files, selector, frontend, converted,
                 deepening, backprop>>

SearchNext == SearchCall

SearchSpec == SearchInit /\ [][SearchNext]_vars

\* the moves of pv can be played one after the other from the chain
RECURSIVE IsLegalLine(_, _)
IsLegalLine(c, pv) ==
    pv = <<>> \/ (Head(pv) \in LegalMoves(c) /\ IsLegalLine(Append(c, Head(pv)), Tail(pv)))

\* C12: the principal variation the root search returns can be replayed
\* move by move from the root position; its first move is a searched legal
\* root move and the rest is the variation the search of that move returned
\* (nothing after a root move that ends the game).
C12_PvIsLegalLine ==
    search_result # NoCall =>
        LET pv == search_result.pv
        IN  /\ IsLegalLine(search_args.chain, pv)
            /\ pv # <<>> =>
                  /\ pv[1] \in LegalMoves(search_args.chain)
                  /\ IsSearched(pv[1], search_args.search_moves)
                  /\ Tail(pv) = IF pv[1] \in NormalMoves
                                THEN RootMiddleResults(search_args)[pv[1]].pv
                                ELSE <<>>

\* the number of half-moves of a line up to its checkmating move, 0 when the
\* line has none
MatePly(pv) ==
    IF \E i \in 1..Len(pv) : pv[i] = "w"
    THEN CHOOSE i \in 1..Len(pv) : pv[i] = "w" /\ \A j \in 1..(i - 1) : pv[j] # "w"
    ELSE 0

\* C13: for a value of the root search in the mate bands (MAX_MATE or more)
\* move_count_to_checkmate gives the number of half-moves from the root to
\* the checkmate of the principal variation, also when the root move itself
\* checkmates; for a value below MAX_MATE it gives none.
C13_MoveCountToCheckmate ==
    search_result # NoCall =>
        LET value == search_result.value
            n == move_count_to_checkmate(value, search_args.depth)
        IN  /\ value >= MAX_EVAL_MATE_VALUE => n = MatePly(search_result.pv)
            /\ value < MAX_EVAL_MATE_VALUE => n = NoLimit

(***************************************************************************)
(* MatrixBufferInner::do_elems on its own.  The elements are numbered; a   *)
(* run records the columns filled by f and the chunks handed to g.         *)
(***************************************************************************)
\* largest number of elements, largest max_col_count
MaxElems == 6

MaxColCount == 4

BufferRuns ==
    {[elems |-> [k \in 1..n |-> k], max_col_count |-> c, i |-> 0,
      filled |-> <<>>, chunks |-> <<>>, status |-> "running"] :
        n \in 0..MaxElems, c \in 1..MaxColCount}

BufferInit ==
    /\ EngineIdle
    /\ search_args = NoCall /\ search_result = NoCall
    /\ sampled = NoCall /\ trainer = NoCall
    /\ files = NoCall /\ selector = NoCall /\ frontend = NoCall /\ converted = NoCall
    /\ deepening = NoCall /\ backprop = NoCall
    /\ matrix_buf \in BufferRuns

\* min(self.max_col_count, elems.len() - i)
col_count(mb) == Min(mb.max_col_count, Len(mb.elems) - mb.i)

\* the range (0..elems.len()).step_by(max_col_count) has no index left
DoElemsLoopEnds_drops_short(mb) == mb.i + mb.max_col_count > Len(mb.elems)

DoElemsLoopEnds(mb) == mb.i >= Len(mb.elems)

\* one turn of the loop: the check passes, f fills the columns 0..col_count-1
\* and g gets elems[i..(i + col_count)]
DoElemsChunk ==
    /\ matrix_buf # NoCall
    /\ matrix_buf.status = "running"
    /\ ~DoElemsLoopEnds(matrix_buf)
    /\ LET mb == matrix_buf
           n == col_count(mb)
       IN  matrix_buf' =
               [mb EXCEPT !.filled = @ \o [j \in 1..n |->
                                             [elem |-> mb.elems[mb.i + j], j |-> j - 1,
                                              col_count |-> n]],
                          !.chunks = Append(@, SubSeq(mb.elems, mb.i + 1, mb.i + n)),
                          !.i = @ + mb.max_col_count]
    /\ UNCHANGED <<engineVars, search_args, search_result, sampled, trainer,
                 files, selector, frontend, converted,
                 deepening, backprop>>

\* intr_checker.check()? fails at the start of a turn
DoElemsInterrupted ==
    /\ matrix_buf # NoCall
    /\ matrix_buf.status = "running"
    /\ ~DoElemsLoopEnds(matrix_buf)
    /\ matrix_buf' = [matrix_buf EXCEPT !.status = "interrupted"]
    /\ UNCHANGED <<engineVars, search_args, search_result, sampled, trainer,
                 files, selector, frontend, converted,
                 deepening, backprop>>

\* Ok(())
DoElemsReturn ==
    /\ matrix_buf # NoCall
    /\ matrix_buf.status = "running"
    /\ DoElemsLoopEnds(matrix_buf)
    /\ matrix_buf' = [matrix_buf EXCEPT !.status = "ok"]
    /\ UNCHANGED <<engineVars, search_args, search_result, sampled, trainer,
                 files, selector, frontend, converted,
                 deepening, backprop>>

BufferNext == DoElemsChunk \/ DoElemsInterrupted \/ DoElemsReturn

BufferSpec == BufferInit /\ [][BufferNext]_vars

\* the chunks one after the other
RECURSIVE Flatten(_)
Flatten(ss) == IF ss = <<>> THEN <<>> ELSE Head(ss) \o Flatten(Tail(ss))

\* C14: the chunks handed to g are consecutive pieces of the element slice
\* in the original order, each of 1..C_max elements and all but the last of
\* exactly C_max; f fills each element of a chunk once, in its column of the
\* chunk; and when do_elems returns Ok every element has been filled and
\* processed exactly once (6 elements with C_max = 4: chunks of 4 and 2).
C14_ChunksPartitionElems ==
    matrix_buf # NoCall =>
        LET mb == matrix_buf
            done == Flatten(mb.chunks)
        IN  /\ Len(done) <= Len(mb.elems)
            /\ done = SubSeq(mb.elems, 1, Len(done))
            /\ \A k \in 1..Len(mb.chunks) :
                  /\ Len(mb.chunks[k]) \in 1..mb.max_col_count
                  /\ k < Len(mb.chunks) => Len(mb.chunks[k]) = mb.max_col_count
            /\ [k \in 1..Len(mb.filled) |-> mb.filled[k].elem] = done
            /\ \A k \in 1..Len(mb.filled) :
                  LET c == (k - 1) \div mb.max_col_count + 1
                  IN  /\ mb.filled[k].j = (k - 1) % mb.max_col_count
                      /\ mb.filled[k].col_count = Len(mb.chunks[c])
            /\ mb.status = "ok" => done = mb.elems
            /\ (mb.status = "ok" /\ Len(mb.elems) = 6 /\ mb.max_col_count = 4)
                  => mb.chunks = << <<1, 2, 3, 4>>, <<5, 6>> >>

C14_Witness ==
    /\ matrix_buf # NoCall
    /\ matrix_buf.status = "ok"
    /\ Len(matrix_buf.elems) = 6 /\ matrix_buf.max_col_count = 4
    /\ Len(matrix_buf.chunks) = 2

(***************************************************************************)
(* The trainer.  A DataSample is [start, len, playable]: the number of     *)
(* moves of the puzzle line already played on its board, the number of     *)
(* moves it holds, and how many of them can be made one after the other.   *)
(***************************************************************************)
DataSample(start, len, playable) == [start |-> start, len |-> len, playable |-> playable]

\* Option<Vec<DataSample>>
NoSamples == [some |-> FALSE, samples |-> <<>>]

SomeSamples(samples) == [some |-> TRUE, samples |-> samples]

\* SingleSampler::samples
SingleSampler_samples(sample) == SomeSamples(<<sample>>)

\* the loop of MultiSampler::samples from the i-th move on (i counts from 0)
RECURSIVE MultiSamplerLoop(_, _, _)
MultiSamplerLoop(sample, i, samples) ==
    IF i >= sample.len THEN SomeSamples(samples)
    ELSE IF i >= sample.playable THEN NoSamples
    ELSE MultiSamplerLoop(sample, i + 1,
             IF sample.len - (i + 1) > 0
             THEN Append(samples, DataSample(sample.start + i + 1, sample.len - (i + 1),
                                             sample.playable - (i + 1)))
             ELSE samples)

\* MultiSampler::samples
MultiSampler_samples(sample) == MultiSamplerLoop(sample, 0, <<sample>>)

Sampler_samples(sampler, sample) ==
    IF sampler = "Single" THEN SingleSampler_samples(sample) ELSE MultiSampler_samples(sample)

\* the runs of do_epoch and do_result made on one Trainer
MaxRuns == 2

\* the records the data iterator yields in one run
MaxRecords == 2

\* the moves of a puzzle line after the opponent's first move
MaxPuzzleLen == 2

\* max_col_count of the gradient adder's matrix buffer
TrainerMaxColCount == 2

\* the value of `064` in the initializers of the two output counters
InitialOutputCount == 64

MoveLens == 0..MaxPuzzleLen

\* the samples an iterator can yield: LichessPuzzles yields playable lines
\* only (it replays every move), another iterator need not
DataSamples == {s \in [start : {0}, len : MoveLens, playable : MoveLens] : s.playable <= s.len}

\* Item = TrainerResult<Option<DataSample>>
OkSome(sample) == [kind |-> "sample", sample |-> sample]

OkNone == [kind |-> "none"]

ErrIo == [kind |-> "io"]

\* Option<T> of the gradient; the value is sum / den
NoGradient == [some |-> FALSE, sum |-> 0, den |-> 1]

\* the part of dJ/dnet one sample contributes
SampleGradient(sample) == sample.len + 1

RECURSIVE SumGradient(_)
SumGradient(samples) ==
    IF samples = <<>> THEN 0 ELSE SampleGradient(Head(samples)) + SumGradient(Tail(samples))

\* the mutant: a bucket is full only above the width
samples_are_full_above(sample_count) == sample_count > TrainerMaxColCount

\* GradientAdder::samples_are_full
samples_are_full(sample_count) == sample_count >= TrainerMaxColCount

\* GradientAdder::start
GradientAdder_start(t) == [t EXCEPT !.gradient = NoGradient]

\* GradientAdder::compute on a minibatch whose samples hold move_count moves;
\* the outputs of the network all pass or all fail, as t.pass says
GradientAdder_compute(t, samples, move_count, are_gradients) ==
    LET all_output_count == Len(samples) * move_count
        passed_output_count == IF t.pass THEN all_output_count ELSE 0
        dj_dnet == SumGradient(samples)
    IN  [t |-> [t EXCEPT !.gradient =
                             IF are_gradients
                             THEN IF t.gradient.some
                                  THEN [@ EXCEPT !.sum = @ + dj_dnet]
                                  ELSE [some |-> TRUE, sum |-> dj_dnet, den |-> 1]
                             ELSE @,
                         !.all_sample_count = @ + Len(samples)],
         passed |-> passed_output_count,
         all |-> all_output_count]

\* GradientAdder::divide
GradientAdder_divide(t) ==
    IF t.gradient.some
    THEN [t |-> [t EXCEPT !.gradient.den = @ * t.all_sample_count], ok |-> TRUE]
    ELSE [t |-> t, ok |-> FALSE]

\* GradientAdder::network_and_gradient_in with the closure of
\* GdAlg::do_algorithm: network -= eta * gradient and state.epoch += 1.
\* The network is the sequence of the gradients subtracted from it.
network_and_gradient_in_zero_gradient(t) ==
    [t |-> [t EXCEPT !.network = Append(@, [sum |-> 0, den |-> 1]), !.epoch = @ + 1],
     ok |-> TRUE]

network_and_gradient_in(t) ==
    IF t.gradient.some
    THEN [t |-> [t EXCEPT !.network = Append(@, [sum |-> t.gradient.sum,
                                                 den |-> t.gradient.den]),
                          !.epoch = @ + 1],
          ok |-> TRUE]
    ELSE [t |-> t, ok |-> FALSE]

\* TrainerResult<(u64, u64, u64)>
NoResult == [status |-> "none"]

OkTuple(t) ==
    [status |-> "ok", passed |-> t.passed_output_count, all |-> t.all_output_count,
     errs |-> t.err_count]

Err(error) == [status |-> "err", error |-> error]

\* the mutant: the minibatch is not cleared after compute
ComputeMinibatch_keeps_minibatch(t, move_count) ==
    LET minibatch == t.minibatches[move_count]
        c == GradientAdder_compute(t, minibatch, move_count, t.are_gradients)
    IN  [c.t EXCEPT !.passed_output_count = @ + c.passed,
                    !.all_output_count = @ + c.all,
                    !.sum_passed = @ + c.passed,
                    !.sum_all = @ + c.all,
                    !.computed = @ \o minibatch,
                    !.batches = Append(@, minibatch)]

\* compute of the minibatch of the samples with move_count moves, the two
\* additions to the counters and minibatch.clear()
ComputeMinibatch(t, move_count) ==
    LET minibatch == t.minibatches[move_count]
        c == GradientAdder_compute(t, minibatch, move_count, t.are_gradients)
    IN  [c.t EXCEPT !.passed_output_count = @ + c.passed,
                    !.all_output_count = @ + c.all,
                    !.minibatches[move_count] = <<>>,
                    !.sum_passed = @ + c.passed,
                    !.sum_all = @ + c.all,
                    !.computed = @ \o minibatch,
                    !.batches = Append(@, minibatch)]

\* the body of `for sample in samples`: the sample joins the minibatch of its
\* length, which is computed once it is full
PushSample(t, sample) ==
    LET t1 == [t EXCEPT !.minibatches[sample.len] = Append(@, sample)]
    IN  IF samples_are_full(Len(t1.minibatches[sample.len]))
        THEN ComputeMinibatch(t1, sample.len)
        ELSE t1

RECURSIVE PushSamples(_, _)
PushSamples(t, samples) ==
    IF samples = <<>> THEN t ELSE PushSamples(PushSample(t, Head(samples)), Tail(samples))

\* `for minibatch in minibatches.values_mut()` from the length n on
RECURSIVE FlushMinibatches(_, _)
FlushMinibatches(t, n) ==
    IF n > MaxPuzzleLen THEN t
    ELSE FlushMinibatches(IF t.minibatches[n] # <<>> THEN ComputeMinibatch(t, n) ELSE t, n + 1)

\* the locals of do_data at its start, and what has been seen in the run
RunStart(t, are_gradients, pass) ==
    [t EXCEPT !.runs = @ + 1,
              !.are_gradients = are_gradients,
              !.pass = pass,
              !.minibatches = [l \in MoveLens |-> <<>>],
              !.sample_count = 0,
              !.passed_output_count = InitialOutputCount,
              !.all_output_count = InitialOutputCount,
              !.err_count = 0,
              !.result = NoResult,
              !.tuple = NoResult,
              !.sum_passed = 0,
              !.sum_all = 0,
              !.computed = <<>>,
              !.batches = <<>>,
              !.items = <<>>,
              !.network_at_call = t.network,
              !.epoch_at_call = t.epoch]

\* Trainer::new over a fresh GradientAdder and GdAlg (GdState::epoch is 1)
NewTrainer(sampler) ==
    RunStart([sampler |-> sampler, gradient |-> NoGradient, all_sample_count |-> 0,
              network |-> <<>>, epoch |-> 1, runs |-> -1, pc |-> "idle",
              are_gradients |-> FALSE, pass |-> FALSE, minibatches |-> <<>>,
              sample_count |-> 0, passed_output_count |-> 0, all_output_count |-> 0,
              err_count |-> 0, result |-> NoResult, tuple |-> NoResult, sum_passed |-> 0, sum_all |-> 0,
              computed |-> <<>>, batches |-> <<>>, items |-> <<>>,
              network_at_call |-> <<>>, epoch_at_call |-> 1], FALSE, FALSE)

TrainInit ==
    /\ EngineIdle
    /\ search_args = NoCall /\ search_result = NoCall
    /\ matrix_buf = NoCall /\ sampled = NoCall
    /\ files = NoCall /\ selector = NoCall /\ frontend = NoCall /\ converted = NoCall
    /\ deepening = NoCall /\ backprop = NoCall
    /\ trainer \in {NewTrainer(s) : s \in {"Single", "Multi"}}

TrainIdle == trainer # NoCall /\ trainer.pc \in {"idle", "returned"} /\ trainer.runs < MaxRuns

TrainLooping == trainer # NoCall /\ trainer.pc = "loop"

TrainOthers == <<engineVars, search_args, search_result, matrix_buf, sampled,
                 files, selector, frontend, converted,
                 deepening, backprop>>

\* do_epoch (are_gradients) or do_result is called: the first print succeeds
\* and the gradient adder is started
TrainCall ==
    /\ TrainIdle
    /\ \E are_gradients \in BOOLEAN, pass \in BOOLEAN :
           trainer' = [GradientAdder_start(RunStart(trainer, are_gradients, pass))
                           EXCEPT !.pc = "loop"]
    /\ UNCHANGED TrainOthers

\* the first print or flush fails: Err(TrainerError::Io) before start()
TrainFirstPrintFails ==
    /\ TrainIdle
    /\ \E are_gradients \in BOOLEAN :
           trainer' = [RunStart(trainer, are_gradients, FALSE)
                           EXCEPT !.pc = "returned", !.result = Err("Io")]
    /\ UNCHANGED TrainOthers

\* one turn of `for sample in data` for an item Ok(Some(sample)) or Ok(None)
RecordBody_skips_silently(t, item) ==
    LET samples == IF item.kind = "sample" THEN Sampler_samples(t.sampler, item.sample)
                   ELSE NoSamples
        t1 == IF samples.some THEN PushSamples(t, samples.samples) ELSE t
    IN  [t1 EXCEPT !.sample_count = @ + 1, !.items = Append(@, item)]

RecordBody(t, item) ==
    LET samples == IF item.kind = "sample" THEN Sampler_samples(t.sampler, item.sample)
                   ELSE NoSamples
        t1 == IF samples.some
              THEN PushSamples(t, samples.samples)
              ELSE [t EXCEPT !.err_count = @ + 1]
    IN  [t1 EXCEPT !.sample_count = @ + 1, !.items = Append(@, item)]

TrainRecord ==
    /\ TrainLooping
    /\ trainer.sample_count < MaxRecords
    /\ \E item \in {OkSome(s) : s \in DataSamples} \cup {OkNone} :
           trainer' = RecordBody(trainer, item)
    /\ UNCHANGED TrainOthers

\* the iterator yields Err(TrainerError::Io): `sample?` returns it
TrainReadError ==
    /\ TrainLooping
    /\ trainer.sample_count < MaxRecords
    /\ trainer' = [trainer EXCEPT !.items = Append(@, ErrIo), !.pc = "returned",
                                  !.result = Err("Io")]
    /\ UNCHANGED TrainOthers

\* intr_checker().check() fails at the start of a turn
TrainInterrupted ==
    /\ TrainLooping
    /\ trainer.sample_count < MaxRecords
    /\ trainer' = [trainer EXCEPT !.pc = "returned", !.result = Err("Interruption")]
    /\ UNCHANGED TrainOthers

\* do_epoch after do_data returned Ok(tuple): divide(), whose result is
\* dropped, then the algorithm step
EpochEnd(t) ==
    LET tuple == OkTuple(t)
        d == GradientAdder_divide(t)
        a == network_and_gradient_in(d.t)
    IN  IF a.ok THEN [a.t EXCEPT !.tuple = tuple, !.result = tuple]
        ELSE [a.t EXCEPT !.tuple = tuple, !.result = Err("NoGradient")]

\* the iterator ends: the minibatches left are computed, the last print
\* succeeds and do_data returns the tuple
TrainFinish ==
    /\ TrainLooping
    /\ LET t == FlushMinibatches(trainer, 0)
       IN  trainer' = [(IF t.are_gradients THEN EpochEnd(t) ELSE [t EXCEPT !.result = OkTuple(t)])
                           EXCEPT !.pc = "returned"]
    /\ UNCHANGED TrainOthers

\* the iterator ends and the last print or flush fails
TrainLastPrintFails ==
    /\ TrainLooping
    /\ trainer' = [FlushMinibatches(trainer, 0) EXCEPT !.pc = "returned", !.result = Err("Io")]
    /\ UNCHANGED TrainOthers

TrainNext ==
    \/ TrainCall
    \/ TrainFirstPrintFails
    \/ TrainRecord
    \/ TrainReadError
    \/ TrainInterrupted
    \/ TrainFinish
    \/ TrainLastPrintFails

TrainSpec == TrainInit /\ [][TrainNext]_vars

\* do_epoch or do_result has returned Ok(tuple)
TrainReturnedOk == trainer # NoCall /\ trainer.pc = "returned" /\ trainer.result.status = "ok"

\* the (sample, ply) pairs of the samples
RECURSIVE PairCount(_)
PairCount(samples) ==
    IF samples = <<>> THEN 0 ELSE Head(samples).len + PairCount(Tail(samples))

\* C15: the passes and the totals that do_epoch and do_result return are
\* exactly the sums of what the compute calls of the run returned, the totals
\* are the number of (sample, ply) pairs computed, and both are 0 when no
\* sample was computed.
C15_CountsAreSums ==
    TrainReturnedOk =>
        /\ trainer.result.passed = trainer.sum_passed
        /\ trainer.result.all = trainer.sum_all
        /\ trainer.result.all = PairCount(trainer.computed)
        /\ trainer.computed = <<>> => trainer.result.passed = 0 /\ trainer.result.all = 0

\* a record that is ill-formed, or whose line the multi sampler cannot replay
IsBadItem(sampler, item) ==
    \/ item.kind = "none"
    \/ item.kind = "sample" /\ sampler = "Multi" /\ item.sample.playable < item.sample.len

RECURSIVE BadItemCount(_, _)
BadItemCount(sampler, items) ==
    IF items = <<>> THEN 0
    ELSE (IF IsBadItem(sampler, Head(items)) THEN 1 ELSE 0) + BadItemCount(sampler, Tail(items))

\* the samples of the records that are not bad, in the order of the records
RECURSIVE GoodSamples(_, _)
GoodSamples(sampler, items) ==
    IF items = <<>> THEN <<>>
    ELSE (IF Head(items).kind = "sample" /\ ~IsBadItem(sampler, Head(items))
          THEN Sampler_samples(sampler, Head(items).sample).samples
          ELSE <<>>) \o GoodSamples(sampler, Tail(items))

\* the two sequences hold the same samples the same number of times
SameSamples(a, b) ==
    /\ Len(a) = Len(b)
    /\ \A s \in {a[i] : i \in DOMAIN a} \cup {b[i] : i \in DOMAIN b} :
           Cardinality({i \in DOMAIN a : a[i] = s}) = Cardinality({i \in DOMAIN b : b[i] = s})

\* the step is a turn of the loop of do_data for a record that was read
IsRecordStep ==
    /\ TrainLooping
    /\ trainer'.items # trainer.items
    /\ trainer'.items[Len(trainer'.items)].kind # "io"

IoItemCount(items) == Cardinality({i \in DOMAIN items : items[i].kind = "io"})

\* C17: a read error that the iterator reports for a record in the loop of
\* do_data adds one to err_count and the run goes on with the next record;
\* it does not end do_epoch or do_result.
C17_ReadErrorCounted ==
    (trainer # NoCall /\ IoItemCount(trainer.items) > 0) =>
        /\ trainer.result.status # "err"
        /\ trainer.err_count =
               BadItemCount(trainer.sampler, trainer.items) + IoItemCount(trainer.items)

\* C18: when do_epoch has divided the accumulator, it holds the mean gradient
\* of that epoch: the sum of the gradients added since start() over the
\* number of samples whose gradients were added in that epoch, in a first
\* epoch as in a later one or in one that follows a do_result pass.
C18_DivideGivesEpochMean ==
    (TrainReturnedOk /\ trainer.are_gradients) =>
        /\ trainer.gradient.some
        /\ trainer.gradient.sum = SumGradient(trainer.computed)
        /\ trainer.gradient.den = Len(trainer.computed)

\* do_epoch got Ok(tuple) from do_data without a sample having been computed
EmptyEpochEnded ==
    /\ trainer # NoCall
    /\ trainer.pc = "returned"
    /\ trainer.are_gradients
    /\ trainer.tuple # NoResult
    /\ trainer.computed = <<>>

\* C19: a do_epoch that reaches the algorithm step without any sample having
\* been computed in that epoch fails with NoGradient and leaves the network
\* parameters and the epoch counter as they were at the call.
C19_EmptyEpochFails ==
    EmptyEpochEnded =>
        /\ trainer.result = Err("NoGradient")
        /\ trainer.network = trainer.network_at_call
        /\ trainer.epoch = trainer.epoch_at_call

\* a second epoch, over ill-formed records only, has ended after a first
\* epoch that changed the network
C19_Witness ==
    /\ EmptyEpochEnded
    /\ trainer.items # <<>>
    /\ trainer.network # <<>>
    /\ trainer.epoch = 2

(***************************************************************************)
(* Sample::samples on its own.                                             *)
(***************************************************************************)
\* the longest move line handed to a sampler
MaxLineLen == 6

SamplerCalls ==
    {c \in [sampler : {"Single", "Multi"},
            sample : [start : 0..1, len : 0..MaxLineLen, playable : 0..MaxLineLen],
            result : {NoCall}] : c.sample.playable <= c.sample.len}

SamplerInit ==
    /\ EngineIdle
    /\ search_args = NoCall /\ search_result = NoCall
    /\ matrix_buf = NoCall /\ trainer = NoCall
    /\ files = NoCall /\ selector = NoCall /\ frontend = NoCall /\ converted = NoCall
    /\ deepening = NoCall /\ backprop = NoCall
    /\ sampled \in SamplerCalls

\* sampler.samples(&sample)
SamplerCall ==
    /\ sampled # NoCall
    /\ sampled.result = NoCall
    /\ sampled' = [sampled EXCEPT !.result = Sampler_samples(sampled.sampler, sampled.sample)]
    /\ UNCHANGED <<engineVars, search_args, search_result, matrix_buf, trainer,
                 files, selector, frontend, converted,
                 deepening, backprop>>

SamplerNext == SamplerCall

SamplerSpec == SamplerInit /\ [][SamplerNext]_vars

\* C20: for a puzzle line of L moves that can all be made, the multi sampler
\* returns exactly L samples, with move lists of L, L-1, ..., 1 moves, the
\* k-th starting at the board reached after the first k-1 moves and holding
\* the moves that remain.
C20_MultiSamplerSuffixes ==
    (/\ sampled # NoCall
     /\ sampled.result # NoCall
     /\ sampled.sampler = "Multi"
     /\ sampled.sample.playable = sampled.sample.len) =>
        LET L == sampled.sample.len
            samples == sampled.result.samples
        IN  /\ sampled.result.some
            /\ Len(samples) = L
            /\ \A k \in 1..Len(samples) :
                   /\ samples[k].len = L - k + 1
                   /\ samples[k].start = sampled.sample.start + k - 1

(***************************************************************************)
(* Saving: move_prev_and_save and GdAlg::save over a file system that maps *)
(* the four file names to what the files hold.                             *)
(***************************************************************************)
\* the save calls made
MaxSaves == 3

\* the file is not existent
NoFile == -1

\* what a save that failed after File::create left in the file
PartialFile == 0

\* format!("{}{}", prefix, suffix) and format!("{}-2{}", prefix, suffix)
FileNames == {"state.toml", "neurina.nnet"}

PrevFileName(file_name) == IF file_name = "state.toml" THEN "state-2.toml" ELSE "neurina-2.nnet"

AllFileNames == FileNames \cup {PrevFileName(n) : n \in FileNames}

\* how a call of move_prev_and_save goes: every step succeeds, or metadata,
\* remove_file, rename or value.save fails (the last before or after the
\* file has been created)
SaveOutcomes == {"ok", "metadata", "remove_file", "rename", "create", "write"}

\* move_prev_and_save(prefix, suffix, value) on the files fs; the result is
\* the new files and whether Ok(()) is returned
move_prev_and_save_keeps_prev(fs, file_name, value, outcome) ==
    [fs |-> IF outcome = "ok" THEN [fs EXCEPT ![file_name] = value] ELSE fs,
     ok |-> outcome = "ok"]

move_prev_and_save(fs, file_name, value, outcome) ==
    LET prev_file_name == PrevFileName(file_name)
        exists == fs[file_name] # NoFile
        removed == [fs EXCEPT ![prev_file_name] = NoFile]
        renamed == [removed EXCEPT ![prev_file_name] = fs[file_name], ![file_name] = NoFile]
        moved == IF exists THEN renamed ELSE fs
    IN  IF outcome = "metadata" THEN [fs |-> fs, ok |-> FALSE]
        ELSE IF exists /\ outcome = "remove_file" THEN [fs |-> fs, ok |-> FALSE]
        ELSE IF exists /\ outcome = "rename" THEN [fs |-> removed, ok |-> FALSE]
        ELSE IF outcome = "create" THEN [fs |-> moved, ok |-> FALSE]
        ELSE IF outcome = "write"
             THEN [fs |-> [moved EXCEPT ![file_name] = PartialFile], ok |-> FALSE]
        ELSE [fs |-> [moved EXCEPT ![file_name] = value], ok |-> TRUE]

OldPureIdle ==
    /\ search_args = NoCall /\ search_result = NoCall /\ matrix_buf = NoCall
    /\ sampled = NoCall /\ trainer = NoCall

\* the files before the first save: none, or files of earlier runs
SaveInit ==
    /\ EngineIdle
    /\ OldPureIdle
    /\ selector = NoCall /\ frontend = NoCall /\ converted = NoCall
    /\ deepening = NoCall /\ backprop = NoCall
    /\ \E old \in [AllFileNames -> {NoFile, PartialFile}] :
           files = [fs |-> old, before |-> old, saves |-> 0, all_ok |-> TRUE,
                    last |-> [n \in FileNames |-> "none"]]

\* GdAlg::save: the state, then the network; the n-th call saves version n
GdAlg_save ==
    /\ files # NoCall
    /\ files.saves < MaxSaves
    /\ \E o1 \in SaveOutcomes, o2 \in SaveOutcomes :
           LET value == files.saves + 1
               s == move_prev_and_save(files.fs, "state.toml", value, o1)
               n == IF s.ok THEN move_prev_and_save(s.fs, "neurina.nnet", value, o2)
                    ELSE [fs |-> s.fs, ok |-> FALSE]
           IN  files' = [fs |-> n.fs, before |-> files.fs, saves |-> value,
                         all_ok |-> files.all_ok /\ n.ok,
                         last |-> [f \in FileNames |->
                                      IF f = "state.toml"
                                      THEN IF s.ok THEN "ok" ELSE "err"
                                      ELSE IF ~s.ok THEN "none"
                                           ELSE IF n.ok THEN "ok" ELSE "err"]]
    /\ UNCHANGED <<engineVars, search_args, search_result, matrix_buf, sampled, trainer,
                 selector, frontend, converted,
                 deepening, backprop>>

SaveNext == GdAlg_save

SaveSpec == SaveInit /\ [][SaveNext]_vars

MaxPuzzles == 5

\* the largest divider
MaxDivider == 3

\* select is called with a divider (puzzle_count % 0 panics)
SelectInit ==
    /\ EngineIdle
    /\ OldPureIdle
    /\ files = NoCall /\ frontend = NoCall /\ converted = NoCall
    /\ deepening = NoCall /\ backprop = NoCall
    /\ selector \in [divider : 1..MaxDivider, puzzle_count : {0}, i : {0}, written : {<<>>},
                     status : {"running"}]

SelectRunning == selector # NoCall /\ selector.status = "running"

SelectOthers ==
    <<engineVars, search_args, search_result, matrix_buf, sampled, trainer,
      files, frontend, converted,
                 deepening, backprop>>

\* whether the puzzle is written, for the i in force
IsSelected(s, i) == s.puzzle_count % s.divider = i

\* one turn of `for puzzle in puzzles` that ends without an error: i is drawn
\* anew at the start of a part, the puzzle is written if its place in the
\* part is i
SelectPuzzle ==
    /\ SelectRunning
    /\ selector.puzzle_count < MaxPuzzles
    /\ \E r \in 0..(selector.divider - 1) :
           LET i == IF selector.puzzle_count % selector.divider = 0 THEN r ELSE selector.i
           IN  selector' = [selector EXCEPT
                                !.i = i,
                                !.written = IF IsSelected(selector, i)
                                            THEN Append(@, selector.puzzle_count) ELSE @,
                                !.puzzle_count = @ + 1]
    /\ UNCHANGED SelectOthers

\* intr_checker.check() fails at the start of a turn
SelectInterrupted ==
    /\ SelectRunning
    /\ selector.puzzle_count < MaxPuzzles
    /\ selector' = [selector EXCEPT !.status = "Interruption"]
    /\ UNCHANGED SelectOthers

\* the iterator yields an error, or a print, a flush or write_puzzle fails,
\* in a turn or after the loop
SelectIoError ==
    /\ SelectRunning
    /\ selector' = [selector EXCEPT !.status = "Io"]
    /\ UNCHANGED SelectOthers

\* the iterator ends, the last print succeeds: Ok(())
SelectReturn ==
    /\ SelectRunning
    /\ selector' = [selector EXCEPT !.status = "ok"]
    /\ UNCHANGED SelectOthers

SelectNext == SelectPuzzle \/ SelectInterrupted \/ SelectIoError \/ SelectReturn

SelectSpec == SelectInit /\ [][SelectNext]_vars

\* the parts of n puzzles: n / divider rounded up
PartCount(n, divider) == (n + divider - 1) \div divider

\* C22: a select that returns Ok has written exactly one puzzle of every part
\* of `divider` consecutive puzzles of the input, the last and shorter part
\* included, in the order of the input: n puzzles give PartCount(n, divider)
\* records, whatever numbers were drawn.
C22_OnePuzzlePerPart ==
    (selector # NoCall /\ selector.status = "ok") =>
        LET w == selector.written
            d == selector.divider
        IN  /\ Len(w) = PartCount(selector.puzzle_count, d)
            /\ \A k \in 1..Len(w) : w[k] \div d = k - 1

(***************************************************************************)
(* The protocol loops: protocol_loop_with_engine_id and, after it, the     *)
(* XBoard loop (with the loop of analysis mode) or the UCI loop, over      *)
(* input lines of a small alphabet.  A line is [name, args, fen]: its      *)
(* first word (empty for an empty line), the number of its further words   *)
(* and, for setboard, the position these words describe.                   *)
(***************************************************************************)
\* the lines read by the loops
MaxLines == 4

\* the moves made on a chain
MaxChainMoves == 2

Line(name, args, fen) == [name |-> name, args |-> args, fen |-> fen]

EmptyLine == Line("", 0, "none")

\* the first lines
DetectLines == {EmptyLine, Line("xboard", 0, "none"), Line("uci", 0, "none"),
                Line("foo", 0, "none")}

\* lines of the XBoard loops: a word that is neither a command nor a move, a
\* move in coordinate notation, setboard with a valid FEN of six and of four
\* fields and with an invalid FEN, and some commands
XboardLines ==
    {EmptyLine, Line("foo", 0, "none"), Line("e2e4", 0, "none"),
     Line("setboard", 6, "A"), Line("setboard", 4, "A"), Line("setboard", 6, "invalid"),
     Line("new", 0, "none"), Line("analyze", 0, "none"), Line("exit", 0, "none"),
     Line("go", 0, "none"), Line("force", 0, "none"), Line("quit", 0, "none"),
     Line("undo", 0, "none"), Line("remove", 0, "none")}

\* the moves listed by a position command: each is a legal move of the
\* position it is made in, or not
MoveTexts == {"legal", "illegal"}

MoveLists == UNION {[1..n -> MoveTexts] : n \in 0..MaxChainMoves}

\* position startpos | fen <fen> | <another word>, and the moves after it
PositionLine(fen, texts) ==
    [name |-> "position", args |-> 1 + Len(texts), fen |-> fen, moves |-> texts]

PositionLines == {PositionLine(fen, texts) : fen \in {"startpos", "A", "invalid", "none"},
                                             texts \in MoveLists}

\* lines of the UCI loop
UciLines ==
    {EmptyLine, Line("foo", 0, "none"), Line("isready", 0, "none"), Line("debug", 1, "none"),
     Line("ucinewgame", 0, "none"), Line("stop", 0, "none"), Line("quit", 0, "none"),
     Line("go", 0, "none")} \cup PositionLines

\* initialize_commands of xboard.rs, for the names of XboardLines
XboardCommands ==
    [new |-> <<"xboard_new", 0, 0>>, quit |-> <<"xboard_quit", 0, 0>>,
     force |-> <<"xboard_force", 0, 0>>, go |-> <<"xboard_go", 0, 0>>,
     setboard |-> <<"xboard_setboard", 4, 6>>, analyze |-> <<"xboard_analyze", 0, 0>>,
     undo |-> <<"xboard_undo", 0, 0>>, remove |-> <<"xboard_remove", 0, 0>>]

\* initialize_analysis_commands, for the names of XboardLines
AnalysisCommands ==
    [new |-> <<"xboard_new", 0, 0>>, setboard |-> <<"xboard_new", 6, 6>>,
     exit |-> <<"xboard_exit", 0, 0>>, quit |-> <<"xboard_quit", 0, 0>>,
     undo |-> <<"xboard_undo", 0, 0>>]

\* initialize_commands of uci.rs, for the names of UciLines
UciCommands ==
    [ucinewgame |-> "uci_ucinewgame", stop |-> "uci_stop", quit |-> "uci_quit",
     position |-> "uci_position", go |-> "uci_go"]

\* MoveChain::new_initial() and MoveChain::new(board)
NewChain(root) == [root |-> root, moves |-> 0, over |-> FALSE]

\* MoveChain::push(mv), and whether set_auto_outcome finds the game ended
ChainPush(mc, ends) == [mc EXCEPT !.moves = @ + 1, !.over = ends]

\* MoveChain::pop(): nothing is taken from a chain without moves
ChainPop(mc) == IF mc.moves = 0 THEN mc
                ELSE [mc EXCEPT !.moves = @ - 1, !.over = FALSE]

\* the lines written in answer to an input line
XboardError(err_type, line) == [kind |-> "Error", type |-> err_type, line |-> line]

IllegalMove(line) == [kind |-> "Illegal move", type |-> "", line |-> line]

UnknownCommand(line) == [kind |-> "Unknown command", type |-> "", line |-> line]

OtherOutput(text) == [kind |-> text, type |-> "", line |-> EmptyLine]

Answer(fe, output) == [fe EXCEPT !.last.answer = Append(@, output)]

\* engine.stop(): the interruption checker is told to stop; is_stopped()
\* stays false until the thinker has left think
EngineStop(fe) == [fe EXCEPT !.intr = TRUE]

\* the end of Thinker::think: the best move is made on the chain when
\* can_make_best_move is set and there is one, then is_stopped is set
ThinkEnded(fe, made, ends) ==
    [fe EXCEPT !.thinking = FALSE,
               !.chain = IF made /\ fe.can_make THEN ChainPush(@, ends) ELSE @]

\* engine.go(..., can_make_best_move, ...): stop and wait for the thinker,
\* which then ends the search it was in, and start a search unless the
\* game has ended
EngineGo(fe, can_make_best_move, made, ends) ==
    LET fe1 == IF fe.thinking THEN ThinkEnded(EngineStop(fe), made, ends)
               ELSE EngineStop(fe)
    IN  IF fe1.chain.over THEN fe1
        ELSE [fe1 EXCEPT !.thinking = TRUE, !.intr = FALSE,
                         !.can_make = can_make_best_move]

\* xboard_go_for_engine(context)
xboard_go_for_engine(fe, made, ends) == EngineGo(fe, fe.pc # "analyze", made, ends)

HasAnalysis(fe) == fe.pc = "analyze"

\* the start of xboard_new, xboard_setboard and xboard_make_move: analysis
\* mode stops the engine, the other mode refuses while the engine thinks
ChainLocked_in_analysis(fe) == HasAnalysis(fe) /\ fe.thinking

ChainLocked(fe) == ~HasAnalysis(fe) /\ fe.thinking

xboard_new(fe, line) ==
    IF ChainLocked(fe) THEN Answer(fe, XboardError("locked move chain", line))
    ELSE LET fe1 == IF HasAnalysis(fe) THEN EngineStop(fe) ELSE [fe EXCEPT !.has_force = FALSE]
             fe2 == [fe1 EXCEPT !.chain = NewChain("initial")]
         IN  IF HasAnalysis(fe) THEN xboard_go_for_engine(fe2, FALSE, FALSE) ELSE fe2

xboard_setboard(fe, line) ==
    IF ChainLocked(fe) THEN Answer(fe, XboardError("locked move chain", line))
    ELSE LET fe1 == IF HasAnalysis(fe) THEN EngineStop(fe) ELSE fe
         IN  IF line.fen = "invalid" THEN Answer(fe1, XboardError("invalid fen", line))
             ELSE LET fe2 == [fe1 EXCEPT !.chain = NewChain(line.fen)]
                  IN  IF HasAnalysis(fe) THEN xboard_go_for_engine(fe2, FALSE, FALSE) ELSE fe2

xboard_undo(fe, line) ==
    IF ChainLocked(fe) THEN Answer(fe, XboardError("locked move chain", line))
    ELSE LET fe1 == IF HasAnalysis(fe) THEN EngineStop(fe) ELSE fe
             fe2 == [fe1 EXCEPT !.chain = ChainPop(@)]
         IN  IF HasAnalysis(fe) THEN xboard_go_for_engine(fe2, FALSE, FALSE) ELSE fe2

xboard_remove(fe, line) ==
    IF fe.thinking THEN Answer(fe, XboardError("locked move chain", line))
    ELSE [fe EXCEPT !.chain = ChainPop(ChainPop(@))]

\* xboard_make_move(stdout_log, context, cmd): is_move says whether the line
\* is a move that can be made on the chain, ends whether that move ends the
\* game
xboard_make_move(fe, line, is_move, ends) ==
    IF ChainLocked(fe) THEN Answer(fe, XboardError("locked move chain", line))
    ELSE LET fe1 == IF HasAnalysis(fe) THEN EngineStop(fe) ELSE fe
         IN  IF ~is_move THEN Answer(fe1, IllegalMove(line))
             ELSE LET fe2 == [fe1 EXCEPT !.chain = ChainPush(@, ends)]
                      fe3 == IF ends THEN Answer(fe2, OtherOutput("outcome")) ELSE fe2
                  IN  IF ~fe.has_force \/ HasAnalysis(fe) THEN xboard_go_for_engine(fe3, FALSE, FALSE)
                      ELSE fe3

\* the functions of the command tables; the result says whether the loop
\* is left (is_exit)
XboardFunction(fun, fe, line, made, ends) ==
    IF fun = "xboard_new" THEN [fe |-> xboard_new(fe, line), is_exit |-> FALSE]
    ELSE IF fun = "xboard_setboard" THEN [fe |-> xboard_setboard(fe, line), is_exit |-> FALSE]
    ELSE IF fun = "xboard_undo" THEN [fe |-> xboard_undo(fe, line), is_exit |-> FALSE]
    ELSE IF fun = "xboard_remove" THEN [fe |-> xboard_remove(fe, line), is_exit |-> FALSE]
    ELSE IF fun = "xboard_quit" THEN [fe |-> fe, is_exit |-> TRUE]
    ELSE IF fun = "xboard_force"
         THEN [fe |-> [fe EXCEPT !.has_force = TRUE], is_exit |-> FALSE]
    ELSE IF fun = "xboard_go"
         THEN [fe |-> xboard_go_for_engine([fe EXCEPT !.has_force = FALSE], made, ends),
               is_exit |-> FALSE]
    ELSE IF fun = "xboard_analyze"
         THEN [fe |-> xboard_go_for_engine([fe EXCEPT !.pc = "analyze"], made, ends),
               is_exit |-> FALSE]
    ELSE \* xboard_exit
         [fe |-> [EngineStop(fe) EXCEPT !.pc = "xboard"], is_exit |-> FALSE]

\* the loop is left: the engine is quit and joined, Ok(()) or the error
LoopEnd(fe, result) == [fe EXCEPT !.pc = "done", !.thinking = FALSE, !.result = result]

\* what a loop does with a line that is not empty, under the table cmds
XboardDispatch(fe, line, cmds, is_move, ends, made) ==
    IF line.name \in DOMAIN cmds
    THEN LET c == cmds[line.name]
         IN  IF line.args < c[2] THEN Answer(fe, XboardError("too few arguments", line))
             ELSE IF line.args > c[3]
                  THEN Answer(fe, XboardError("too many arguments", line))
             ELSE LET r == XboardFunction(c[1], fe, line, made, ends)
                  IN  IF r.is_exit THEN LoopEnd(r.fe, "ok") ELSE r.fe
    ELSE xboard_make_move(fe, line, is_move, ends)

\* a line has been read and logged
LineRead(fe, line) ==
    [fe EXCEPT !.reads = @ + 1,
               !.last = [line |-> line, loop |-> fe.pc, answer |-> <<>>]]

NewFrontend ==
    [pc |-> "detect", protocol |-> "pending", engine |-> FALSE, thinking |-> FALSE,
     intr |-> FALSE, can_make |-> FALSE, has_force |-> FALSE, chain |-> NewChain("initial"), reads |-> 0, result |-> "none",
     last |-> [line |-> EmptyLine, loop |-> "none", answer |-> <<>>]]

FrontInit ==
    /\ EngineIdle
    /\ OldPureIdle
    /\ files = NoCall /\ selector = NoCall /\ converted = NoCall
    /\ deepening = NoCall /\ backprop = NoCall
    /\ frontend = NewFrontend

FrontOthers ==
    <<engineVars, search_args, search_result, matrix_buf, sampled, trainer,
      files, selector, converted,
                 deepening, backprop>>

FrontAt(pc) == frontend # NoCall /\ frontend.pc = pc /\ frontend.reads < MaxLines

\* protocol_loop_with_engine_id: one line is read and decides
FrontDetect ==
    /\ FrontAt("detect")
    /\ \E line \in DetectLines :
           LET fe == LineRead(frontend, line)
           IN  frontend' =
                   IF line.name = "xboard"
                   THEN [fe EXCEPT !.pc = "xboard", !.protocol = "xboard"]
                   ELSE IF line.name = "uci"
                   THEN [Answer(fe, OtherOutput("uciok")) EXCEPT !.pc = "uci",
                                                                 !.protocol = "uci"]
                   ELSE [LoopEnd(fe, "UnrecognizedProtocol") EXCEPT
                             !.protocol = "UnrecognizedProtocol"]
    /\ UNCHANGED FrontOthers

\* read_line returns Ok(0)
FrontEof ==
    /\ frontend # NoCall
    /\ frontend.pc # "done"
    /\ frontend' = LoopEnd(frontend, "ok")
    /\ UNCHANGED FrontOthers

\* read_line, log_input_line or a write of an answer fails
FrontIoError ==
    /\ frontend # NoCall
    /\ frontend.pc # "done"
    /\ frontend.reads < MaxLines
    /\ frontend' = LoopEnd(frontend, "Io")
    /\ UNCHANGED FrontOthers

\* the closure that creates the engine fails at the first command
FrontEngineFails ==
    /\ frontend # NoCall
    /\ frontend.pc \in {"xboard", "uci"}
    /\ frontend.reads < MaxLines
    /\ ~frontend.engine
    /\ \E line \in (IF frontend.pc = "xboard" THEN XboardLines
                    ELSE {l \in UciLines : l.name \notin {"debug", "isready"}}) \ {EmptyLine} :
           frontend' = LoopEnd(LineRead(frontend, line), "engine")
    /\ UNCHANGED FrontOthers

\* the text is a move that can be made on the chain
IsMove(line, legal) == line.name = "e2e4" /\ legal

\* the search in progress ends with a best move that think makes
ThinkerMayMove(fe) ==
    fe.thinking /\ fe.can_make /\ fe.chain.moves < MaxChainMoves

\* one turn of the loop of xboard_loop_with_engine_id
FrontXboardLine ==
    /\ FrontAt("xboard")
    /\ \E line \in XboardLines, legal \in BOOLEAN, ends \in BOOLEAN, made \in BOOLEAN :
           /\ IsMove(line, legal) => frontend.chain.moves < MaxChainMoves
           /\ made => ThinkerMayMove(frontend) /\ line.name \in {"go", "analyze"}
           /\ LET fe == LineRead(frontend, line)
              IN  frontend' =
                      IF line = EmptyLine THEN fe
                      ELSE XboardDispatch([fe EXCEPT !.engine = TRUE], line, XboardCommands,
                                          IsMove(line, legal), ends, made)
    /\ UNCHANGED FrontOthers

\* one turn of the loop of xboard_analyze
FrontAnalyzeLine ==
    /\ FrontAt("analyze")
    /\ \E line \in XboardLines, legal \in BOOLEAN, ends \in BOOLEAN :
           /\ IsMove(line, legal) => frontend.chain.moves < MaxChainMoves
           /\ LET fe == LineRead(frontend, line)
              IN  frontend' =
                      IF line = EmptyLine THEN fe
                      ELSE XboardDispatch(fe, line, AnalysisCommands, IsMove(line, legal), ends,
                                          FALSE)
    /\ UNCHANGED FrontOthers

\* the loop over the moves of uci_position: the moves are pushed one by
\* one and the closure returns at the first that cannot be
RECURSIVE PushMoves(_, _)
PushMoves(mc, texts) ==
    IF texts = <<>> \/ Head(texts) = "illegal" THEN mc
    ELSE PushMoves(ChainPush(mc, FALSE), Tail(texts))

\* the closure of uci_position
PositionChain(mc, line) ==
    IF line.fen \in {"invalid", "none"} THEN mc
    ELSE PushMoves(NewChain(IF line.fen = "startpos" THEN "initial" ELSE line.fen),
                   line.moves)

uci_position(fe, line) == [EngineStop(fe) EXCEPT !.chain = PositionChain(@, line)]

\* the functions of the UCI table
UciFunction(fun, fe, line) ==
    IF fun = "uci_ucinewgame"
    THEN [fe |-> [EngineStop(fe) EXCEPT !.chain = NewChain("initial")], is_exit |-> FALSE]
    ELSE IF fun = "uci_stop" THEN [fe |-> EngineStop(fe), is_exit |-> FALSE]
    ELSE IF fun = "uci_position" THEN [fe |-> uci_position(fe, line), is_exit |-> FALSE]
    ELSE IF fun = "uci_go"
         THEN [fe |-> EngineGo(EngineStop(fe), FALSE, FALSE, FALSE), is_exit |-> FALSE]
    ELSE \* uci_quit
         [fe |-> fe, is_exit |-> TRUE]

\* one turn of the loop of uci_loop_with_engine_id
UciDispatch(fe, line) ==
    IF line.name = "debug" THEN fe
    ELSE IF line.name = "isready" THEN Answer(fe, OtherOutput("readyok"))
    ELSE LET fe1 == [fe EXCEPT !.engine = TRUE]
         IN  IF line.name \in DOMAIN UciCommands
             THEN LET r == UciFunction(UciCommands[line.name], fe1, line)
                  IN  IF r.is_exit THEN LoopEnd(r.fe, "ok") ELSE r.fe
             ELSE Answer(fe1, UnknownCommand(line))

FrontUciLine ==
    /\ FrontAt("uci")
    /\ \E line \in UciLines :
           LET fe == LineRead(frontend, line)
           IN  frontend' = IF line = EmptyLine THEN fe ELSE UciDispatch(fe, line)
    /\ UNCHANGED FrontOthers

\* the thinker ends its search; with can_make_best_move it may make its move
FrontThinkEnds ==
    /\ frontend # NoCall
    /\ frontend.pc # "done"
    /\ frontend.thinking
    /\ \E made \in BOOLEAN, ends \in BOOLEAN :
           /\ made => ThinkerMayMove(frontend)
           /\ ends => made
           /\ frontend' = ThinkEnded(frontend, made, ends)
    /\ UNCHANGED FrontOthers

FrontNext ==
    \/ FrontDetect
    \/ FrontEof
    \/ FrontIoError
    \/ FrontEngineFails
    \/ FrontXboardLine
    \/ FrontAnalyzeLine
    \/ FrontUciLine
    \/ FrontThinkEnds

FrontSpec == FrontInit /\ [][FrontNext]_vars

\* C23: the protocol is chosen from the first line that is not empty: an
\* empty line before it is skipped (no choice is made yet), `xboard` starts
\* the XBoard loop, `uci` the UCI loop, and any other line makes the loop
\* fail with UnrecognizedProtocol.
C23_ProtocolFromFirstNonEmptyLine ==
    (frontend # NoCall /\ frontend.last.loop = "detect") =>
        LET name == frontend.last.line.name
        IN  /\ name = "" => frontend.protocol = "pending"
            /\ name = "xboard" => frontend.protocol = "xboard"
            /\ name = "uci" => frontend.protocol = "uci"
            /\ name \notin {"", "xboard", "uci"} =>
                   /\ frontend.protocol = "UnrecognizedProtocol"
                   /\ frontend.result = "UnrecognizedProtocol"

\* the last line was a setboard with a valid FEN that was not answered with
\* an error
SetboardAccepted ==
    /\ frontend # NoCall
    /\ frontend.last.line.name = "setboard"
    /\ frontend.last.line.fen # "invalid"
    /\ frontend.last.loop \in {"xboard", "analyze"}
    /\ frontend.last.answer = <<>>
    /\ frontend.result \in {"none", "ok"}

\* C24: after an XBoard setboard command with a valid FEN that was accepted,
\* in the normal and in the analysis mode, the move chain is a new chain
\* whose position is the one of the FEN.
C24_SetboardSetsPosition ==
    SetboardAccepted => frontend.chain = NewChain(frontend.last.line.fen)

\* the command name of the last line is not in the table of its loop, and
\* the line is not a move string either
UnknownCommandRead ==
    /\ frontend # NoCall
    /\ frontend.last.line.name \notin {"", "e2e4"}
    /\ \/ frontend.last.loop = "uci" /\
          frontend.last.line.name \notin DOMAIN UciCommands \cup {"debug", "isready"}
       \/ frontend.last.loop = "xboard" /\ frontend.last.line.name \notin DOMAIN XboardCommands
       \/ frontend.last.loop = "analyze" /\
          frontend.last.line.name \notin DOMAIN AnalysisCommands
    /\ frontend.result \in {"none", "ok"}

\* C25: a line whose command name is not in the command table is answered
\* with one error line, `Unknown command: <line>` in the UCI loop and
\* `Error (<type>): <line>` in the XBoard loop, and the loop goes on.
C25_UnknownCommandAnswered ==
    UnknownCommandRead =>
        /\ Len(frontend.last.answer) = 1
        /\ frontend.last.answer[1].line = frontend.last.line
        /\ frontend.last.answer[1].kind =
               (IF frontend.last.loop = "uci" THEN "Unknown command" ELSE "Error")

(***************************************************************************)
(* Converter::board_to_matrix_col.  A square is its index rank * 8 + file, *)
(* a cell is empty or a piece of a colour, a column holds 1, -1 or what    *)
(* the buffer held before (0 after allocation).                            *)
(***************************************************************************)
\* the most columns of the matrix the board is written into
ConvMaxColCount == 2

\* the files on which the piece that is neither a king nor a rook stands
MaxPieceFiles == 2

BOARD_ROW_COUNT == (64 * 13) + 6 + 9

Color_inv(color) == IF color = "White" THEN "Black" ELSE "White"

EmptyCell == [color |-> "none", piece |-> "none"]

Cell_from_parts(color, piece) == [color |-> color, piece |-> piece]

\* Cell::index: 0 for the empty cell, then the white and the black pieces
Cell_index(cell) ==
    IF cell = EmptyCell THEN 0
    ELSE 1 + (IF cell.color = "White" THEN 0 ELSE 6)
           + (CASE cell.piece = "Pawn" -> 0 [] cell.piece = "King" -> 1
                [] cell.piece = "Knight" -> 2 [] cell.piece = "Bishop" -> 3
                [] cell.piece = "Rook" -> 4 [] cell.piece = "Queen" -> 5)

coord_to_index(idx, color) ==
    IF color = "White" THEN idx
    ELSE LET rank_idx == idx \div 8
             file_idx == idx % 8
         IN  ((7 - rank_idx) * 8) + file_idx

cell_to_index(cell, color) ==
    LET tmp_cell == IF color = "White" \/ cell = EmptyCell THEN cell
                    ELSE Cell_from_parts(Color_inv(cell.color), cell.piece)
    IN  Cell_index(tmp_cell)

NoEpDest == [some |-> FALSE, file |-> 0]

SomeEpDest(file) == [some |-> TRUE, file |-> file]

\* the kings and the rooks on their first squares
HomeCells ==
    [squ \in 0..63 |->
        CASE squ = 4 -> Cell_from_parts("Black", "King")
          [] squ \in {0, 7} -> Cell_from_parts("Black", "Rook")
          [] squ = 60 -> Cell_from_parts("White", "King")
          [] squ \in {56, 63} -> Cell_from_parts("White", "Rook")
          [] OTHER -> EmptyCell]

\* a pawn or a knight on the four middle ranks, where it attacks no king
ExtraPieces ==
    {[squ |-> (rank * 8) + file, cell |-> Cell_from_parts(color, piece)] :
         rank \in 2..5, file \in 0..(MaxPieceFiles - 1),
         color \in {"White", "Black"}, piece \in {"Pawn", "Knight"}}

CastlingRights == SUBSET ({"White", "Black"} \X {"Queen", "King"})

\* the pawn that has just made a double step can be taken en passant
EpDests(side, extra) ==
    {NoEpDest} \cup
    {SomeEpDest(e.squ % 8) : e \in {x \in extra :
         /\ x.cell = Cell_from_parts(Color_inv(side), "Pawn")
         /\ x.squ \div 8 = (IF side = "White" THEN 3 ELSE 4)}}

\* the boards converted: the home squares with every set of castling
\* rights, and with one more piece when all the rights or none are left
ConverterBoards ==
    UNION {{[side |-> side,
             cells |-> [squ \in 0..63 |->
                           IF \E e \in extra : e.squ = squ
                           THEN (CHOOSE e \in extra : e.squ = squ).cell
                           ELSE HomeCells[squ]],
             castling |-> castling,
             ep_dest |-> ep] : ep \in EpDests(side, extra)} :
           side \in {"White", "Black"},
           castling \in {c \in CastlingRights : Cardinality(c) \in {0, 4}},
           extra \in {{e} : e \in ExtraPieces}}
    \cup {[side |-> side, cells |-> HomeCells, castling |-> castling,
           ep_dest |-> NoEpDest] : side \in {"White", "Black"}, castling \in CastlingRights}

\* the rows of the column set to 1.0 by the loop over the squares
PieceRows(board) ==
    {LET coord_idx == coord_to_index(squ, board.side)
         cell_idx == cell_to_index(board.cells[coord_idx], board.side)
     IN  (coord_idx * 13) + cell_idx : squ \in 0..63}

\* the rows set to 1.0 for the castling rights, after offset += 64 * 13
CastlingRows(board) ==
    LET offset == 64 * 13
        wq_castling == <<board.side, "Queen">> \in board.castling
        wk_castling == <<board.side, "King">> \in board.castling
        we_castling == ~(wq_castling \/ wk_castling)
        bq_castling == <<Color_inv(board.side), "Queen">> \in board.castling
        bk_castling == <<Color_inv(board.side), "King">> \in board.castling
        be_castling == ~(bq_castling \/ bk_castling)
    IN  {offset + 0 : x \in {1} \cap (IF wq_castling THEN {1} ELSE {})}
        \cup {offset + 1 : x \in {1} \cap (IF wk_castling THEN {1} ELSE {})}
        \cup {offset + 2 : x \in {1} \cap (IF we_castling THEN {1} ELSE {})}
        \cup {offset + 3 : x \in {1} \cap (IF bq_castling THEN {1} ELSE {})}
        \cup {offset + 4 : x \in {1} \cap (IF bk_castling THEN {1} ELSE {})}
        \cup {offset + 5 : x \in {1} \cap (IF be_castling THEN {1} ELSE {})}

\* the row set to 1.0 for the en passant square, after offset += 6
EpRows(board) ==
    LET offset == (64 * 13) + 6
    IN  IF board.ep_dest.some THEN {offset + board.ep_dest.file + 1} ELSE {offset + 0}

\* the mutant: the column is not filled with -1.0 first
board_to_matrix_col_without_fill(board, elems, col, n_cols) ==
    LET ones == PieceRows(board) \cup CastlingRows(board) \cup EpRows(board)
    IN  [k \in DOMAIN elems |->
            IF k % n_cols = col /\ (k \div n_cols) \in ones THEN 1 ELSE elems[k]]

\* elems[col_count * i + col] is -1.0 for every row i and then 1.0 for the
\* rows of the pieces, of the castling rights and of the en passant square
board_to_matrix_col(board, elems, col, n_cols) ==
    LET ones == PieceRows(board) \cup CastlingRows(board) \cup EpRows(board)
    IN  [k \in DOMAIN elems |->
            IF k % n_cols = col /\ (k \div n_cols) < BOARD_ROW_COUNT
            THEN (IF (k \div n_cols) \in ones THEN 1 ELSE -1)
            ELSE elems[k]]

\* a buffer of BOARD_ROW_COUNT rows and col_count columns that is new (0)
\* or holds 1.0 from an earlier use
ConvertInit ==
    /\ EngineIdle
    /\ OldPureIdle
    /\ files = NoCall /\ selector = NoCall /\ frontend = NoCall /\ deepening = NoCall /\ backprop = NoCall
    /\ \E board \in ConverterBoards, n_cols \in 1..ConvMaxColCount, fill \in {0, 1} :
       \E col \in 0..(n_cols - 1) :
           converted = [pc |-> "call", board |-> board, col |-> col,
                        col_count |-> n_cols,
                        elems |-> [k \in 0..((BOARD_ROW_COUNT * n_cols) - 1) |-> fill],
                        before |-> fill]

\* converter.board_to_matrix_col(&board, elems, col, col_count)
ConvertBoard ==
    /\ converted # NoCall
    /\ converted.pc = "call"
    /\ converted' = [converted EXCEPT
           !.pc = "done",
           !.elems = board_to_matrix_col(converted.board, @, converted.col,
                                         converted.col_count)]
    /\ UNCHANGED <<engineVars, search_args, search_result, matrix_buf, sampled, trainer,
                   files, selector, frontend, deepening, backprop>>

ConvertNext == ConvertBoard

ConvertSpec == ConvertInit /\ [][ConvertNext]_vars

BoardConverted == converted # NoCall /\ converted.pc = "done"

\* the entry of row i of the column written
ColElem(i) == converted.elems[(converted.col_count * i) + converted.col]

\* how many of the rows from first to last hold 1
OnesIn(first, last) == Cardinality({i \in first..last : ColElem(i) = 1})

\* the 64 groups of the pieces and the en passant group hold one 1 each, and
\* the column holds nothing but 1 and -1
C26_PieceAndEpGroups ==
    /\ \A i \in 0..(BOARD_ROW_COUNT - 1) : ColElem(i) \in {1, -1}
    /\ \A squ \in 0..63 : OnesIn(squ * 13, (squ * 13) + 12) = 1
    /\ OnesIn((64 * 13) + 6, (64 * 13) + 14) = 1

\* C26 as stated: for every board the column written has exactly one +1 in
\* each of the 64 groups of 13 piece slots, exactly one +1 among the 3 own
\* castling slots, exactly one among the 3 enemy castling slots and exactly
\* one among the 9 en passant slots, and -1 everywhere else.
C26_OneHotGroups ==
    BoardConverted =>
        /\ C26_PieceAndEpGroups
        /\ OnesIn(64 * 13, (64 * 13) + 2) = 1
        /\ OnesIn((64 * 13) + 3, (64 * 13) + 5) = 1

\* the three castling slots of a colour starting at row first: the slot of a
\* side is 1 when the colour has the right, the third when it has neither
CastlingSlots(first, color) ==
    LET queen == <<color, "Queen">> \in converted.board.castling
        king == <<color, "King">> \in converted.board.castling
    IN  /\ ColElem(first) = 1 <=> queen
        /\ ColElem(first + 1) = 1 <=> king
        /\ ColElem(first + 2) = 1 <=> ~(queen \/ king)
        /\ OnesIn(first, first + 2) \in {1, 2}

\* C26 amended: the piece groups and the en passant group hold exactly one
\* +1 each and every other entry is -1, while each castling group holds one
\* flag per right and a third flag for no right: two +1 when the colour has
\* both rights, one +1 otherwise.
C26_OneHotGroupsAndCastlingFlags ==
    BoardConverted =>
        /\ C26_PieceAndEpGroups
        /\ CastlingSlots(64 * 13, converted.board.side)
        /\ CastlingSlots((64 * 13) + 3, Color_inv(converted.board.side))

\* a board whose side to move has both castling rights, with an en passant
\* square, written into the second column of a buffer that held 1.0
C26_Witness ==
    /\ BoardConverted
    /\ converted.board.ep_dest.some
    /\ {<<converted.board.side, "Queen">>, <<converted.board.side, "King">>}
           \subseteq converted.board.castling
    /\ converted.col = 1
    /\ converted.before = 1
    /\ OnesIn(64 * 13, (64 * 13) + 2) = 2

\* C27: with Black to move the piece on the square of rank r and file f is
\* written into the group of the square of rank 7 - r and file f, with its
\* colour swapped.
C27_BlackBoardReflected ==
    (BoardConverted /\ converted.board.side = "Black") =>
        \A squ \in 0..63 :
            LET cell == converted.board.cells[squ]
                reflected == ((7 - (squ \div 8)) * 8) + (squ % 8)
            IN  cell # EmptyCell =>
                    ColElem((reflected * 13) +
                            Cell_index(Cell_from_parts(Color_inv(cell.color), cell.piece))) = 1

(***************************************************************************)
(* The deepening loop of Thinker::think on its own, with the nodes of the  *)
(* middle searches and the batches of the neural searches of an iteration. *)
(***************************************************************************)
NODE_COUNT_TO_INTR_CHECK == 1024

\* the thinks made one after another
MaxThinks == 2

\* the root moves of an iteration that are searched by the middle searcher
MaxRootMoves == 2

\* the chunks of a neural search
MaxBatches == 1

\* the nodes of one pass of a middle search
PassNodeCounts == {5, 1100}

\* max_depth of think, from below min_depth on
DepthCaps == {NoLimit} \cup ((min_depth - 1)..DepthCap)

\* a middle search: the nodes of a pass, whether the first pass ends with a
\* mate value or without leaves, the chunks of the neural search
SearchShapes == [nodes : PassNodeCounts, mate : BOOLEAN, batches : 1..MaxBatches]

NoCheck == [none |-> TRUE]

\* Thinker::new and IntrChecker::new
NewDeepening ==
    [pc |-> "idle", thinks |-> 0, max_depth |-> NoLimit, timed |-> FALSE,
     expired |-> FALSE, is_stopped |-> TRUE, has_first |-> TRUE,
     thinker_stopped |-> TRUE, depth |-> 0, is_first |-> TRUE, depths |-> <<>>,
     moves_left |-> 0, shape |-> [nodes |-> 0, mate |-> FALSE, batches |-> 0],
     middle_node_count |-> 0, left |-> 0, batches_left |-> 0,
     stop_pending |-> FALSE, since_stop |-> 0, last_check |-> NoCheck,
     result |-> "none"]

DeepenInit ==
    /\ EngineIdle
    /\ OldPureIdle
    /\ files = NoCall /\ selector = NoCall /\ frontend = NoCall /\ converted = NoCall
    /\ deepening = NewDeepening
    /\ backprop = NoCall

DeepenOthers ==
    <<engineVars, search_args, search_result, matrix_buf, sampled, trainer,
      files, selector, frontend, converted, backprop>>

\* the end of think: the best move is handled and self.stop() is called
ThinkEnd(d, result) ==
    [d EXCEPT !.pc = "idle", !.thinker_stopped = TRUE, !.stop_pending = FALSE,
              !.since_stop = 0, !.result = result]

\* the mutant: the loop goes on until the depth is above the cap
DepthCapReached_after(at_depth, max_depth) == max_depth # NoLimit /\ at_depth > max_depth

\* Some(max_depth) if depth + 1 > max_depth => break
DepthCapReached(at_depth, max_depth) == max_depth # NoLimit /\ at_depth + 1 > max_depth

\* MiddleSearcher::search up to the first call of nega_max
MiddleSearchStart(d, shape) ==
    [d EXCEPT !.pc = "pass1", !.shape = shape, !.middle_node_count = 1,
              !.left = shape.nodes, !.batches_left = shape.batches]

\* the search of the iteration has returned Ok: the breaks of the loop, else
\* depth += 1; is_first = false.  other_break stands for the breaks on the
\* value, on the node count and on the moves to checkmate
IterationEnd(d, other_break) ==
    IF other_break \/ DepthCapReached(d.depth, d.max_depth)
    THEN ThinkEnd(d, "Ok")
    ELSE [d EXCEPT !.pc = "loop", !.depth = @ + 1, !.is_first = FALSE]

\* a middle search has returned Ok to OneSearcher::search
MiddleSearchReturn(d, next, other_break) ==
    IF d.moves_left > 1
    THEN MiddleSearchStart([d EXCEPT !.moves_left = @ - 1], next)
    ELSE IterationEnd([d EXCEPT !.moves_left = 0], other_break)

\* the last node of a pass has been visited
PassEnd(d, next, other_break) ==
    IF d.pc = "pass1"
    THEN IF d.shape.mate THEN MiddleSearchReturn(d, next, other_break)
         ELSE [d EXCEPT !.pc = "neural"]
    ELSE MiddleSearchReturn(d, next, other_break)

\* intr_checker.check() with its result kept
Checked(d) ==
    LET deadline_passed == d.timed /\ d.expired
    IN  [d EXCEPT !.last_check =
            [is_first |-> d.is_first, has_first |-> d.has_first,
             is_stopped |-> d.is_stopped, deadline_passed |-> deadline_passed,
             result |-> IntrCheck_check(d.has_first, d.is_stopped, deadline_passed)]]

\* k calls of nega_max_with_fun_ref none of which but the first checks
Visit(d, k, next, other_break) ==
    LET d1 == [d EXCEPT !.middle_node_count = @ + k, !.left = @ - k,
                        !.since_stop = IF d.stop_pending THEN @ + k ELSE @]
    IN  IF d1.left = 0 THEN PassEnd(d1, next, other_break) ELSE d1

\* engine.go and think up to the loop
DeepenGo ==
    /\ deepening # NoCall
    /\ deepening.pc = "idle"
    /\ deepening.thinks < MaxThinks
    /\ \E max_depth \in DepthCaps, timed \in BOOLEAN, probed \in BOOLEAN :
           LET d == [deepening EXCEPT
                        !.thinks = @ + 1, !.max_depth = max_depth, !.timed = timed,
                        !.expired = FALSE, !.is_stopped = FALSE,
                        !.thinker_stopped = FALSE, !.depth = min_depth,
                        !.is_first = TRUE, !.depths = <<>>, !.stop_pending = FALSE,
                        !.since_stop = 0, !.last_check = NoCheck, !.result = "none"]
           IN  deepening' = IF probed THEN ThinkEnd(d, "Ok") ELSE [d EXCEPT !.pc = "loop"]
    /\ UNCHANGED DeepenOthers

\* set_first(is_first) and the start of OneSearcher::search
DeepenIterate ==
    /\ deepening # NoCall
    /\ deepening.pc = "loop"
    /\ deepening.depth <= DepthCap
    /\ \E moves \in 1..MaxRootMoves, shape \in SearchShapes :
           deepening' = MiddleSearchStart(
                            [deepening EXCEPT !.has_first = deepening.is_first,
                                              !.depths = Append(@, deepening.depth),
                                              !.moves_left = moves], shape)
    /\ UNCHANGED DeepenOthers

\* the calls of nega_max_with_fun_ref up to the next one that checks
DeepenVisit ==
    /\ deepening # NoCall
    /\ deepening.pc \in {"pass1", "pass2"}
    /\ \E next \in SearchShapes, other_break \in BOOLEAN :
           LET c == deepening.middle_node_count % NODE_COUNT_TO_INTR_CHECK
               d == Checked(deepening)
           IN  deepening' =
                   IF c = 0
                   THEN IF d.last_check.result # "Ok"
                        THEN ThinkEnd(d, "Interrupted")
                        ELSE Visit(d, 1, next, other_break)
                   ELSE Visit(deepening,
                              Min(deepening.left, NODE_COUNT_TO_INTR_CHECK - c),
                              next, other_break)
    /\ UNCHANGED DeepenOthers

\* one turn of the loop of do_elems in the neural search; after the last one
\* middle_node_count += 1 and the second pass begins
DeepenNeuralBatch ==
    /\ deepening # NoCall
    /\ deepening.pc = "neural"
    /\ LET d == Checked(deepening)
       IN  deepening' =
               IF d.last_check.result # "Ok" THEN ThinkEnd(d, "Interrupted")
               ELSE IF d.batches_left > 1 THEN [d EXCEPT !.batches_left = @ - 1]
               ELSE [d EXCEPT !.batches_left = 0, !.pc = "pass2",
                              !.middle_node_count = @ + 1, !.left = d.shape.nodes]
    /\ UNCHANGED DeepenOthers

\* engine.stop() while the thinker thinks
DeepenStop ==
    /\ deepening # NoCall
    /\ deepening.pc # "idle"
    /\ ~deepening.is_stopped
    /\ deepening' =
           [deepening EXCEPT
               !.is_stopped = TRUE,
               !.stop_pending = deepening.pc \in {"pass1", "neural", "pass2"}
                                /\ ~deepening.has_first,
               !.since_stop = 0]
    /\ UNCHANGED DeepenOthers

\* the deadline passes
DeepenTick ==
    /\ deepening # NoCall
    /\ deepening.pc # "idle"
    /\ deepening.timed
    /\ ~deepening.expired
    /\ deepening' = [deepening EXCEPT !.expired = TRUE]
    /\ UNCHANGED DeepenOthers

DeepenNext ==
    \/ DeepenGo
    \/ DeepenIterate
    \/ DeepenVisit
    \/ DeepenNeuralBatch
    \/ DeepenStop
    \/ DeepenTick

DeepenSpec == DeepenInit /\ [][DeepenNext]_vars

\* C28: in the first iteration of every think check() returns Ok even when
\* the stop flag is set or the deadline has passed; from the second
\* iteration on it returns Stop whenever the stop flag is set and otherwise
\* Timeout once the deadline has passed.
C28_FirstIterationNotInterrupted ==
    (deepening # NoCall /\ deepening.last_check # NoCheck) =>
        LET k == deepening.last_check
        IN  /\ k.has_first = k.is_first
            /\ k.is_first => k.result = "Ok"
            /\ (~k.is_first /\ k.is_stopped) => k.result = "Stop"
            /\ (~k.is_first /\ ~k.is_stopped /\ k.deadline_passed) => k.result = "Timeout"
            /\ (~k.is_first /\ ~k.is_stopped /\ ~k.deadline_passed) => k.result = "Ok"

\* a check of the first iteration made with the stop flag set and the
\* deadline passed, in the second think
C28_Witness ==
    /\ deepening # NoCall
    /\ deepening.last_check # NoCheck
    /\ deepening.last_check.is_first
    /\ deepening.last_check.is_stopped
    /\ deepening.last_check.deadline_passed
    /\ deepening.last_check.result = "Ok"
    /\ deepening.thinks = 2

\* C29: once stop() has been called in an iteration that is not the first,
\* the search is interrupted before more than 1024 further nodes of the
\* middle search are visited (or at the next chunk of the neural search).
C29_StopSeenWithin1024Nodes ==
    (deepening # NoCall /\ deepening.stop_pending) =>
        deepening.since_stop <= NODE_COUNT_TO_INTR_CHECK

\* C30 as stated: the iterations of a think run at the depths min_depth,
\* min_depth + 1, ... in steps of one, and none at a depth above the cap.
C30_DepthsUpToCap ==
    deepening # NoCall =>
        \A i \in 1..Len(deepening.depths) :
            /\ deepening.depths[i] = min_depth + i - 1
            /\ deepening.max_depth # NoLimit => deepening.depths[i] <= deepening.max_depth

\* C30 amended: the depths are min_depth, min_depth + 1, ... in steps of one;
\* the first iteration always runs at min_depth, and no later iteration runs
\* at a depth above the cap.
C30_DepthsUpToCapAfterFirst ==
    deepening # NoCall =>
        \A i \in 1..Len(deepening.depths) :
            /\ deepening.depths[i] = min_depth + i - 1
            /\ (deepening.max_depth # NoLimit /\ i > 1) =>
                   deepening.depths[i] <= deepening.max_depth

\* a think with the cap min_depth + 1 that ran both of its iterations
C30_Witness ==
    /\ deepening # NoCall
    /\ deepening.max_depth = min_depth + 1
    /\ deepening.depths = <<min_depth, min_depth + 1>>
    /\ deepening.pc = "idle"
    /\ deepening.result = "Ok"

(***************************************************************************)
(* The minibatches of do_data.                                             *)
(***************************************************************************)
\* the sequences of a sequence of sequences one after another
RECURSIVE FlattenSeq(_)
FlattenSeq(seqs) == IF seqs = <<>> THEN <<>> ELSE Head(seqs) \o FlattenSeq(Tail(seqs))

\* C31: every minibatch passed to compute holds samples of one move count
\* and at most as many as the width of the gradient adder, and a minibatch
\* is computed and cleared as soon as it reaches that width: between two
\* turns of the loop every minibatch is below it.
C31_MinibatchesWithinWidth ==
    trainer # NoCall =>
        /\ \A b \in DOMAIN trainer.batches :
               LET batch == trainer.batches[b]
               IN  /\ batch # <<>>
                   /\ Len(batch) <= TrainerMaxColCount
                   /\ \A i, j \in DOMAIN batch : batch[i].len = batch[j].len
        /\ \A l \in DOMAIN trainer.minibatches :
               Len(trainer.minibatches[l]) < TrainerMaxColCount

\* a minibatch of the full width was computed while the loop is running
C31_Witness ==
    /\ TrainLooping
    /\ trainer.batches # <<>>
    /\ Len(trainer.batches[1]) = TrainerMaxColCount
    /\ \E l \in DOMAIN trainer.minibatches : trainer.minibatches[l] # <<>>

\* C32: in a run of do_epoch or do_result that returns Ok every sample the
\* sampler produced was passed to compute exactly once, and every
\* minibatch is empty at the end.
C32_EverySampleComputedOnce ==
    TrainReturnedOk =>
        /\ SameSamples(FlattenSeq(trainer.batches),
                       FlattenSeq([i \in DOMAIN trainer.items |->
                           IF trainer.items[i].kind = "sample"
                           THEN LET r == Sampler_samples(trainer.sampler, trainer.items[i].sample)
                                IN  IF r.some THEN r.samples ELSE <<>>
                           ELSE <<>>]))
        /\ \A l \in DOMAIN trainer.minibatches : trainer.minibatches[l] = <<>>

\* a run that computed one full minibatch in the loop and a shorter one
\* after the iterator ended
C32_Witness ==
    /\ TrainReturnedOk
    /\ Len(trainer.batches) = 2
    /\ Len(trainer.batches[1]) = TrainerMaxColCount
    /\ Len(trainer.batches[2]) < TrainerMaxColCount

(***************************************************************************)
(* compute with are_gradients: the `one` matrix handed to backpropagate    *)
(* and the gradient of the output bias, dj_do * one.                       *)
(***************************************************************************)
\* the most columns of a batch
MaxBatchWidth == 2

\* the most rows of the upstream signal dj/do
MaxSignalRows == 2

SignalValues == {-1, 0, 1}

\* a sum over the first n elements of f
RECURSIVE SumTo(_, _)
SumTo(f, n) == IF n = 0 THEN 0 ELSE f[n] + SumTo(f, n - 1)

\* the product of a matrix of rows x cols with a matrix of cols x 1
MatrixTimesColumn(m, rows, cols, column) ==
    [r \in 1..rows |-> SumTo([k \in 1..cols |-> m[r][k] * column[k]], cols)]

\* let one_elems = vec![0.0f32; col_count];
\* let one = Matrix::new_with_elems(col_count, 1, one_elems.as_slice());
OneMatrix(n_cols) == [k \in 1..n_cols |-> 0]

\* let mut dj_dob = &dj_do * one;
OutputBiasGradient(dj_do, rows, cols, one) == MatrixTimesColumn(dj_do, rows, cols, one)

BackInit ==
    /\ EngineIdle
    /\ OldPureIdle
    /\ files = NoCall /\ selector = NoCall /\ frontend = NoCall /\ converted = NoCall
    /\ deepening = NoCall
    /\ \E adder \in {"GradientAdder", "OneGradientAdder"},
          rows \in 1..MaxSignalRows, cols \in 1..MaxBatchWidth :
       \E dj_do \in [1..rows -> [1..cols -> SignalValues]] :
           backprop = [pc |-> "call", adder |-> adder, rows |-> rows, col_count |-> cols,
                       dj_do |-> dj_do, one |-> <<>>, dj_dob |-> <<>>]

\* the `if are_gradients` block of compute, up to the bias gradient
BackCompute ==
    /\ backprop # NoCall
    /\ backprop.pc = "call"
    /\ LET one == OneMatrix(backprop.col_count)
       IN  backprop' = [backprop EXCEPT
               !.pc = "done",
               !.one = one,
               !.dj_dob = OutputBiasGradient(backprop.dj_do, backprop.rows,
                                             backprop.col_count, one)]
    /\ UNCHANGED <<engineVars, search_args, search_result, matrix_buf, sampled, trainer,
                   files, selector, frontend, converted, deepening>>

BackNext == BackCompute

BackSpec == BackInit /\ [][BackNext]_vars

\* C33: the `one` matrix passed to backpropagate has one row per column of
\* the batch and every element of it is 1, so that the gradient of a bias
\* is the upstream signal summed over the columns of the batch.
C33_OnesVectorSumsBatch ==
    (backprop # NoCall /\ backprop.pc = "done") =>
        /\ DOMAIN backprop.one = 1..backprop.col_count
        /\ \A k \in DOMAIN backprop.one : backprop.one[k] = 1
        /\ \A r \in 1..backprop.rows :
               backprop.dj_dob[r] = SumTo(backprop.dj_do[r], backprop.col_count)

(***************************************************************************)
(* The move chain under the commands of the front ends.                    *)
(***************************************************************************)
\* the words that change the chain in the XBoard loop: four commands and a
\* move of the user
ChainCommandNames == {"new", "setboard", "undo", "remove", "e2e4"}

\* a step of the XBoard loop outside analysis mode that reads such a line
\* while the thinker has not stopped
LockedChainCommandStep ==
    /\ frontend # NoCall
    /\ frontend.pc = "xboard"
    /\ frontend.thinking
    /\ frontend'.reads = frontend.reads + 1
    /\ frontend'.pc # "done"
    /\ frontend'.last.line.name \in ChainCommandNames

\* C34: outside analysis mode a command that changes the move chain and
\* arrives while the engine thinks is answered with Error (locked move
\* chain) and changes neither the chain nor the force flag nor the search
\* in progress, so the chain is changed only while the thinker is idle.
C34_LockedChainCommandRejected ==
    [][LockedChainCommandStep =>
          /\ frontend'.last.answer =
                 <<XboardError("locked move chain", frontend'.last.line)>>
          /\ frontend'.chain = frontend.chain
          /\ frontend'.has_force = frontend.has_force
          /\ frontend'.thinking = frontend.thinking
          /\ frontend'.intr = frontend.intr
          /\ frontend'.can_make = frontend.can_make]_vars

C34_Witness ==
    /\ frontend # NoCall
    /\ frontend.pc = "xboard"
    /\ frontend.thinking
    /\ frontend.chain.moves > 0
    /\ frontend.last.loop = "xboard"
    /\ frontend.last.line.name = "undo"
    /\ frontend.last.answer = <<XboardError("locked move chain", frontend.last.line)>>

\* C35: while force mode lasts the engine makes no move of its own, also
\* when a search was in progress when force was read: a step that reads no
\* line and begins and ends in force mode leaves the chain as it is.
C35_NoEngineMoveInForceMode ==
    [][(/\ frontend # NoCall
        /\ frontend.has_force
        /\ frontend'.has_force
        /\ frontend'.reads = frontend.reads) =>
          frontend'.chain = frontend.chain]_vars

\* a position command whose position and moves can all be taken
PositionValid(line) ==
    /\ line.fen \in {"startpos", "A"}
    /\ \A k \in DOMAIN line.moves : line.moves[k] = "legal"

\* C36: the UCI command position is all or nothing: with an invalid
\* position or a move that cannot be made the chain is left as it was,
\* otherwise it is the given position followed by all the listed moves.
C36_PositionAllOrNothing ==
    [][(/\ frontend # NoCall
        /\ frontend.pc = "uci"
        /\ frontend'.reads = frontend.reads + 1
        /\ frontend'.pc # "done"
        /\ frontend'.last.line.name = "position") =>
          LET line == frontend'.last.line
          IN  frontend'.chain =
                  IF PositionValid(line)
                  THEN [root |-> IF line.fen = "startpos" THEN "initial" ELSE line.fen,
                        moves |-> Len(line.moves), over |-> FALSE]
                  ELSE frontend.chain]_vars

(***************************************************************************)
(* The move chain over a Think.                                            *)
(***************************************************************************)
\* the best move is among the last lines written: the last line, or the
\* line before the line of the outcome
BestMoveEmitted(mv) ==
    /\ writer # <<>>
    /\ \/ writer[Len(writer)] = BestMoveLine(mv)
       \/ /\ Len(writer) >= 2
          /\ writer[Len(writer)].t = "outcome"
          /\ writer[Len(writer) - 1] = BestMoveLine(mv)

\* C37: a Think with can_make_best_move set that returns Ok has appended
\* exactly one move to the chain it began with, the move it has printed as
\* best move; a Think with the flag unset leaves the chain with the moves it
\* began with.
C37_ThinkAppendsItsBestMove ==
    workerPc = "think_stop" =>
        IF cmd.params.can_make_best_move
        THEN /\ Len(chain) = Len(thinkRoot) + 1
             /\ SubSeq(chain, 1, Len(thinkRoot)) = thinkRoot
             /\ cmd.params.can_print_best_move_and_outcome =>
                    BestMoveEmitted(chain[Len(chain)])
        ELSE chain = thinkRoot

C37_Witness ==
    /\ workerPc = "think_stop"
    /\ cmd.params.can_make_best_move
    /\ Len(chain) = Len(thinkRoot) + 1
    /\ BestMoveEmitted(chain[Len(chain)])

\* C39: the channel of the engine never holds more than one command that
\* the worker has not received, whatever go, stop, do_move_chain and quit
\* are called one after another.
C39_OneUndeliveredCommand == Len(queue) <= 1

\* no command has been sent after a Quit
QuitOnlyLast == \A i \in 1..(Len(sent) - 1) : sent[i].kind # "Quit"

\* C39, up to the first quit: the channel holds at most one command that
\* the worker has not received, and while it holds one the worker is at
\* recv, its previous Think finished.
C39_OneUndeliveredCommandUntilQuit ==
    QuitOnlyLast => /\ Len(queue) <= 1
                    /\ queue # <<>> => workerPc = "recv"

C39_Witness ==
    /\ QuitOnlyLast
    /\ Len(queue) = 1
    /\ queue[1].kind = "Think"
    /\ thinksDone # {}
    /\ workerPc = "recv"

(***************************************************************************)
(* OneSearcher::search and the move chain it is given: the moves of the    *)
(* chain and the outcome recorded in it.                                   *)
(***************************************************************************)
\* the most moves of a root chain
MaxRootLen == 2

\* a MoveChain: its moves and the outcome recorded in it
MoveChainOf(ms) == [moves |-> ms, outcome |-> "None"]

\* MoveChain::set_auto_outcome(OutcomeFilter::Relaxed): the outcome of the
\* last position is recorded in the chain and returned
set_auto_outcome(mc) == [mc EXCEPT !.outcome = AutoOutcome(mc.moves)]

\* MoveChain::clear_outcome()
clear_outcome(mc) == [mc EXCEPT !.outcome = "None"]

\* MoveChain::push(mv): a move that is not legal is refused
ChainPushIsOk(mv) == mv # "i"

MoveChain_push(mc, mv) == [mc EXCEPT !.moves = Append(@, mv)]

\* MoveChain::pop(): the last move is taken back, and with it the outcome
MoveChain_pop(mc) ==
    [moves |-> SubSeq(mc.moves, 1, Len(mc.moves) - 1), outcome |-> "None"]

\* the state of a search: the chain, the pushes and pops made, the return
SearchState(mc, pushes, pops, returned) ==
    [move_chain |-> mc, pushes |-> pushes, pops |-> pops, returned |-> returned]

\* for mv in &moves { ... } of OneSearcher::search from the i-th move on;
\* intr is the root move whose middle search returns Err, if any
RECURSIVE RootMoveLoop(_, _, _, _, _)
RootMoveLoop(st, ms, i, search_moves, intr) ==
    IF i > Len(ms) THEN [st EXCEPT !.returned = "Ok"]
    ELSE LET mv == ms[i]
         IN  IF ~IsSearched(mv, search_moves) \/ ~ChainPushIsOk(mv)
             THEN RootMoveLoop(st, ms, i + 1, search_moves, intr)
             ELSE LET pushed == set_auto_outcome(MoveChain_push(st.move_chain, mv))
                      popped == [st EXCEPT !.move_chain = MoveChain_pop(pushed),
                                           !.pushes = @ + 1, !.pops = @ + 1]
                  IN  IF pushed.outcome = "None" /\ mv = intr
                      THEN [popped EXCEPT !.returned = "Err"]
                      ELSE RootMoveLoop(popped, ms, i + 1, search_moves, intr)

\* OneSearcher::search(move_chain, depth, search_moves), for what it does to
\* the chain
OneSearcher_search_chain(mc, search_moves, intr) ==
    LET mc1 == set_auto_outcome(mc)
    IN  IF mc1.outcome # "None" THEN SearchState(mc1, 0, 0, "Ok")
        ELSE RootMoveLoop(SearchState(clear_outcome(mc1), 0, 0, "running"),
                          SemiLegal(mc.moves), 1, search_moves, intr)

\* the chains given to search: the game goes on or has ended at the root
RootChains ==
    {ms \in UNION {[1..n -> Moves \ {"i"}] : n \in 0..MaxRootLen} :
        \A k \in 1..(Len(ms) - 1) : ms[k] \in NormalMoves}

RootSearchMoves ==
    {NoSearchMoves} \cup {SomeSearchMoves(mvs) : mvs \in SUBSET {"d", "n1", "n2"}}

RootSearchInit ==
    /\ EngineIdle
    /\ search_args \in [move_chain : {MoveChainOf(ms) : ms \in RootChains},
                        search_moves : RootSearchMoves,
                        intr : {NoMove} \cup NormalMoves]
    /\ search_result = NoCall
    /\ matrix_buf = NoCall /\ sampled = NoCall /\ trainer = NoCall
    /\ files = NoCall /\ selector = NoCall /\ frontend = NoCall /\ converted = NoCall
    /\ deepening = NoCall /\ backprop = NoCall

RootSearchCall ==
    /\ search_result = NoCall
    /\ search_result' = OneSearcher_search_chain(search_args.move_chain,
                                                 search_args.search_moves, search_args.intr)
    /\ UNCHANGED <<engineVars, search_args, matrix_buf, sampled, trainer,
                   files, selector, frontend, converted, deepening, backprop>>

RootSearchNext == RootSearchCall

RootSearchSpec == RootSearchInit /\ [][RootSearchNext]_vars

\* C38: search returns with the chain it was given, the same moves and no
\* outcome recorded, and has made as many pops as pushes, whether it returns
\* a result, is interrupted in a child or finds the game ended at the root.
C38_SearchLeavesChain ==
    search_result # NoCall =>
        /\ search_result.move_chain = search_args.move_chain
        /\ search_result.pushes = search_result.pops

(***************************************************************************)
(* MiddleSearcher::search on its own: the leaves of its two passes.        *)
(***************************************************************************)
\* the boards a middle search starts from
MiddleRoots == {<<>>, <<"n1">>, <<"n2">>, <<"n1", "n2">>, <<"n2", "n1">>}

MiddleSearchInit ==
    /\ EngineIdle
    /\ search_args \in [board : MiddleRoots, depth : (MIDDLE_DEPTH + 1)..MaxSearchDepth,
                        eval : EvalFuns, policy : Policies]
    /\ search_result = NoCall
    /\ matrix_buf = NoCall /\ sampled = NoCall /\ trainer = NoCall
    /\ files = NoCall /\ selector = NoCall /\ frontend = NoCall /\ converted = NoCall
    /\ deepening = NoCall /\ backprop = NoCall

\* self.middle_searcher.search(board, self.middle_depth, depth)
MiddleSearchCall ==
    /\ search_result = NoCall
    /\ search_result' = MiddleSearcher_search(search_args.board, MIDDLE_DEPTH,
                                              search_args.depth, search_args.eval,
                                              search_args.policy)
    /\ UNCHANGED <<engineVars, search_args, matrix_buf, sampled, trainer,
                   files, selector, frontend, converted, deepening, backprop>>

MiddleSearchNext == MiddleSearchCall

MiddleSearchSpec == MiddleSearchInit /\ [][MiddleSearchNext]_vars

\* C40: the second pass meets the leaves in the order of the first: the
\* k-th leaf it values has index k - 1, the index is within the list of
\* neural principal variations, its path is the path the first pass
\* recorded there, and the first MIDDLE_DEPTH moves of the variation stored
\* at the index are that path.
C40_SecondPassLeavesMatch ==
    search_result # NoCall =>
        \A k \in DOMAIN search_result.leaves :
            LET leaf == search_result.leaves[k]
                i == leaf.leaf_idx + 1
            IN  /\ i = k
                /\ i \in DOMAIN search_result.neural_pvs
                /\ leaf.path = search_result.first_leaves[i]
                /\ Len(leaf.path) = MIDDLE_DEPTH
                /\ SubSeq(search_result.neural_pvs[i], 1, MIDDLE_DEPTH) = leaf.path

\* a second pass over several leaves whose variations the network extended
C40_Witness ==
    /\ search_result # NoCall
    /\ Len(search_result.leaves) >= 3
    /\ Len(search_result.leaves) = Len(search_result.neural_pvs)
    /\ \E i \in DOMAIN search_result.neural_pvs :
           Len(search_result.neural_pvs[i]) > MIDDLE_DEPTH

====
